---- MODULE Spec2Model ----
(***************************************************************************)
(* A model of aiobotocore/credentials.py: the refresh protocol of          *)
(* AioRefreshableCredentials / AioDeferredRefreshableCredentials, the      *)
(* cached credential fetcher, the MFA refresher wrapper, the assume-role   *)
(* provider and the credential resolver.                                   *)
(*                                                                         *)
(* Time is counted in units of five minutes.  Each action is one run of a  *)
(* coroutine between two points where it really suspends (a network call,  *)
(* a wait for the refresh lock); asyncio runs such a stretch atomically.   *)
(***************************************************************************)
EXTENDS Integers, Sequences, FiniteSets, TLC

\* ------------------------------------------------------------------ bounds
\* The concurrent callers of get_frozen_credentials (each makes one call).
Callers == {1, 2, 3}
\* The longest provider list of a resolver.
MaxProviders == 3
\* METHOD names of the providers a resolver may hold.
Methods == {"env", "assume-role", "container-role", "iam-role"}
\* The calls of fetch_credentials (each made once).
Fetches == {1, 2, 3}
\* Cache keys of the fetchers (one per role configuration).
CacheKeys == {"role-x", "role-y"}
\* The invocations of wrapped refreshers (each made once), and the wrappers.
Invokers == {1, 2, 3, 4}
Wrappers == {1, 2}
\* The callers of get_frozen_credentials on the credentials a provider
\* loaded.
RoleCallers == {1, 2}
\* The calls of AioAssumeRoleProvider.load (each makes one credential object).
LoadCalls == {1, 2}
\* The clock runs from 0 to MaxTime.
MaxTime == 3
\* Credential objects of the refresh-protocol specification.
Objects == {1}
\* Expiry times a directly constructed credential may start with (now = 0).
InitExpiry == {1, 2, 4}
\* Lifetimes (expiry - now) of the metadata a refresh may return:
\* already expired, inside the mandatory window, beyond the advisory window.
Durations == {-1, 1, 4}

\* --------------------------------------------------------------- constants
\* RefreshableCredentials._advisory_refresh_timeout = 15 * 60 s
Advisory == 3
\* RefreshableCredentials._mandatory_refresh_timeout = 10 * 60 s
Mandatory == 2
\* CachedCredentialFetcher.DEFAULT_EXPIRY_WINDOW_SECONDS = 60 * 15 s
DefaultExpiryWindow == 3
\* expiry_window_seconds a fetcher may be built with: 0, or the default.
ExpiryWindows == {0, DefaultExpiryWindow}

\* Python's None, and a present value.
None == <<>>
Some(x) == <<x>>

VARIABLES
    now,      \* what time_fetcher() returns
    cred,     \* credential objects: id -> fields, refresh lock and its waiters
    task,     \* callers of get_frozen_credentials: position, locals, result
    resolver, \* an AioCredentialResolver and one load_credentials call on it
    cache,    \* the credential cache: cache key -> cached response or None
    fetch,    \* calls of fetch_credentials: position, fetcher, result
    mfa,      \* refreshers made by create_aio_mfa_serial_refresher
    invocation, \* invocations of those refreshers: position, result
    provider, \* an AioAssumeRoleProvider: its configuration and its loads
    fetcher,  \* credential object -> the fetcher its refresh_using is bound to
    sts,      \* the assume-role calls made so far
    session,  \* the session create_credential_resolver is called with
    sourcer,  \* an AioCanonicalNameCredentialSourcer and one lookup on it
    process   \* an AioProcessProvider and one load() call on it

vars == <<now, cred, task, resolver, cache, fetch, mfa, invocation,
          provider, fetcher, sts, session, sourcer, process>>
refreshVars == <<cred, task>>
resolverVars == <<resolver>>
fetchVars == <<cache, fetch>>
mfaVars == <<mfa, invocation>>
assumeRoleVars == <<provider, fetcher, sts>>
chainVars == <<session, sourcer, process>>

\* ------------------------------------------------- AioRefreshableCredentials
\* RefreshableCredentials.refresh_needed: no expiry, no refresh; otherwise
\* a refresh is needed when less than refresh_in remains.
base_refresh_needed(r, refresh_in, t) ==
    IF r.expiry_time = None THEN FALSE
    ELSE IF r.expiry_time[1] - t >= refresh_in THEN FALSE
    ELSE TRUE

\* Variant: without the override of AioDeferredRefreshableCredentials.
refresh_needed_not_overridden(r, refresh_in, t) ==
    base_refresh_needed(r, refresh_in, t)

\* AioDeferredRefreshableCredentials.refresh_needed; for an object that was
\* constructed with credentials the snapshot is never None and this is the
\* inherited check.
refresh_needed(r, refresh_in, t) ==
    IF r.frozen = None THEN TRUE
    ELSE base_refresh_needed(r, refresh_in, t)

\* RefreshableCredentials._is_expired
is_expired(r, t) == refresh_needed(r, 0, t)

\* asyncio.Lock.locked()
lock_locked(r) == r.locked

\* asyncio.Lock.acquire() returns at once only when the lock is free and
\* nobody is queued for it; otherwise the caller queues and suspends.
lock_free_now(r) == ~r.locked /\ r.waiters = <<>>

\* asyncio.Lock.release(): the lock is free again; the first waiter, if any,
\* is woken (it takes the lock when it next runs).
lock_release(r) == [r EXCEPT !.locked = FALSE]

lock_take(r) == [r EXCEPT !.locked = TRUE]

lock_enqueue(r, c) == [r EXCEPT !.waiters = Append(@, c)]

\* get_frozen_credentials: return self._frozen_credentials
Returned(t, r) ==
    [t EXCEPT !.pc = "done",
              !.result = [kind |-> "return", snap |-> r.frozen, err |-> "none"]]

\* an exception leaves get_frozen_credentials
Raised(t, e) ==
    [t EXCEPT !.pc = "done",
              !.result = [kind |-> "raise", snap |-> None, err |-> e]]

\* The window the credential is in: "fresh", "advisory" (advisory elapsed,
\* mandatory not), "mandatory" (mandatory elapsed).
Window(r, t) ==
    IF refresh_needed(r, Mandatory, t) THEN "mandatory"
    ELSE IF refresh_needed(r, Advisory, t) THEN "advisory"
    ELSE "fresh"

\* _protected_refresh up to its await: refresh_using is invoked.
protected_refresh_begin(r, t, is_mandatory, tm) ==
    <<r, [t EXCEPT !.pc = "refreshing",
                   !.is_mandatory = is_mandatory,
                   !.start = Window(r, tm)]>>

\* _refresh, the body under the lock of the `if not locked()` branch.
refresh_locked_advisory(r, t, tm) ==
    IF ~refresh_needed(r, Advisory, tm)
    THEN <<lock_release(r), Returned(t, r)>>
    ELSE protected_refresh_begin(r, t, refresh_needed(r, Mandatory, tm), tm)

\* Variant: the waiter's refresh is mandatory only if the window says so
\* when it is looked at once more.
refresh_locked_mandatory_failure_swallowed(r, t, tm) ==
    IF ~refresh_needed(r, Mandatory, tm)
    THEN <<lock_release(r), Returned(t, r)>>
    ELSE protected_refresh_begin(r, t, FALSE, tm)

\* Variant: the waiter refreshes without looking again.
refresh_locked_mandatory_no_recheck(r, t, tm) ==
    protected_refresh_begin(r, t, TRUE, tm)

\* Variant: the waiter looks again with the inherited check only.
refresh_locked_mandatory_inherited_check(r, t, tm) ==
    IF ~base_refresh_needed(r, Mandatory, tm)
    THEN <<lock_release(r), Returned(t, r)>>
    ELSE protected_refresh_begin(r, t, TRUE, tm)

\* _refresh, the body under the lock of the `elif refresh_needed(mandatory)`
\* branch.
refresh_locked_mandatory(r, t, tm) ==
    IF ~refresh_needed(r, Mandatory, tm)
    THEN <<lock_release(r), Returned(t, r)>>
    ELSE protected_refresh_begin(r, t, TRUE, tm)

\* Variant: a caller that finds the lock held always waits for it.
refresh_always_waits(r, t, c, tm) ==
    IF ~refresh_needed(r, Advisory, tm) THEN <<r, Returned(t, r)>>
    ELSE IF ~lock_locked(r)
    THEN IF lock_free_now(r)
         THEN refresh_locked_advisory(lock_take(r), t, tm)
         ELSE <<lock_enqueue(r, c), [t EXCEPT !.pc = "waitAdvisory"]>>
    ELSE <<lock_enqueue(r, c), [t EXCEPT !.pc = "waitMandatory"]>>

\* Variant: a caller that finds the lock held never waits for it.
refresh_never_waits(r, t, c, tm) ==
    IF ~refresh_needed(r, Advisory, tm) THEN <<r, Returned(t, r)>>
    ELSE IF ~lock_locked(r)
    THEN IF lock_free_now(r)
         THEN refresh_locked_advisory(lock_take(r), t, tm)
         ELSE <<lock_enqueue(r, c), [t EXCEPT !.pc = "waitAdvisory"]>>
    ELSE <<r, Returned(t, r)>>

\* Variant: without the early return of a credential that needs no refresh.
refresh_no_early_return(r, t, c, tm) ==
    IF ~lock_locked(r)
    THEN IF lock_free_now(r)
         THEN refresh_locked_advisory(lock_take(r), t, tm)
         ELSE <<lock_enqueue(r, c), [t EXCEPT !.pc = "waitAdvisory"]>>
    ELSE IF refresh_needed(r, Mandatory, tm)
    THEN <<lock_enqueue(r, c), [t EXCEPT !.pc = "waitMandatory"]>>
    ELSE <<r, Returned(t, r)>>

\* Variant: the mandatory branch refreshes without taking the lock.
refresh_without_lock(r, t, c, tm) ==
    IF ~refresh_needed(r, Advisory, tm) THEN <<r, Returned(t, r)>>
    ELSE IF ~lock_locked(r)
    THEN IF lock_free_now(r)
         THEN refresh_locked_advisory(lock_take(r), t, tm)
         ELSE <<lock_enqueue(r, c), [t EXCEPT !.pc = "waitAdvisory"]>>
    ELSE IF refresh_needed(r, Mandatory, tm)
    THEN protected_refresh_begin(r, t, TRUE, tm)
    ELSE <<r, Returned(t, r)>>

\* Variant: one lock is shared by all credential objects.
refresh_one_lock_for_all(r, t, c, tm) ==
    IF ~refresh_needed(r, Advisory, tm) THEN <<r, Returned(t, r)>>
    ELSE IF \A o \in DOMAIN cred : ~lock_locked(cred[o])
    THEN IF lock_free_now(r)
         THEN refresh_locked_advisory(lock_take(r), t, tm)
         ELSE <<lock_enqueue(r, c), [t EXCEPT !.pc = "waitAdvisory"]>>
    ELSE IF refresh_needed(r, Mandatory, tm)
    THEN <<lock_enqueue(r, c), [t EXCEPT !.pc = "waitMandatory"]>>
    ELSE <<r, Returned(t, r)>>

\* _refresh from its entry to its first suspension (or its return).
refresh(r, t, c, tm) ==
    IF ~refresh_needed(r, Advisory, tm) THEN <<r, Returned(t, r)>>
    ELSE IF ~lock_locked(r)
    THEN IF lock_free_now(r)
         THEN refresh_locked_advisory(lock_take(r), t, tm)
         ELSE <<lock_enqueue(r, c), [t EXCEPT !.pc = "waitAdvisory"]>>
    ELSE IF refresh_needed(r, Mandatory, tm)
    THEN <<lock_enqueue(r, c), [t EXCEPT !.pc = "waitMandatory"]>>
    ELSE <<r, Returned(t, r)>>

\* RefreshableCredentials._set_from_data
set_from_data(r, md) ==
    [r EXCEPT !.access_key = Some(md.key), !.expiry_time = Some(md.expiry)]

\* Variant: without the check that the refreshed credentials are expired.
protected_refresh_returned_unchecked(r, t, md, tm) ==
    LET r1 == set_from_data(r, md)
        r2 == [r1 EXCEPT !.frozen = r1.access_key]
        t1 == [t EXCEPT !.fetched = [st |-> "ok", life |-> md.expiry - tm, at |-> tm]]
    IN  <<lock_release(r2), Returned(t1, r2)>>

\* Variant: expired metadata is rejected before it is stored.
protected_refresh_returned_checked_first(r, t, md, tm) ==
    LET r1 == set_from_data(r, md)
        r2 == [r1 EXCEPT !.frozen = r1.access_key]
        t1 == [t EXCEPT !.fetched = [st |-> "ok", life |-> md.expiry - tm, at |-> tm]]
    IN  IF is_expired(r2, tm)
        THEN <<lock_release(r), Raised(t1, "RuntimeError")>>
        ELSE <<lock_release(r2), Returned(t1, r2)>>

\* _protected_refresh after refresh_using returned metadata md.
protected_refresh_returned(r, t, md, tm) ==
    LET r1 == set_from_data(r, md)
        r2 == [r1 EXCEPT !.frozen = r1.access_key]
        t1 == [t EXCEPT !.fetched = [st |-> "ok", life |-> md.expiry - tm, at |-> tm]]
    IN  IF is_expired(r2, tm)
        THEN <<lock_release(r2), Raised(t1, "RuntimeError")>>
        ELSE <<lock_release(r2), Returned(t1, r2)>>

\* Variant: every failure is swallowed.
protected_refresh_raised_swallowed(r, t, e, tm) ==
    LET t1 == [t EXCEPT !.fetched = [st |-> "raised", life |-> 0, at |-> tm]]
    IN  <<lock_release(r), Returned(t1, r)>>

\* Variant: a propagated failure leaves the lock held.
protected_refresh_raised_lock_kept(r, t, e, tm) ==
    LET t1 == [t EXCEPT !.fetched = [st |-> "raised", life |-> 0, at |-> tm]]
    IN  IF t.is_mandatory
        THEN <<r, Raised(t1, e)>>
        ELSE <<lock_release(r), Returned(t1, r)>>

\* _protected_refresh after refresh_using raised.
protected_refresh_raised(r, t, e, tm) ==
    LET t1 == [t EXCEPT !.fetched = [st |-> "raised", life |-> 0, at |-> tm]]
    IN  IF t.is_mandatory
        THEN <<lock_release(r), Raised(t1, e)>>
        ELSE <<lock_release(r), Returned(t1, r)>>

\* ------------------------------------------------------------------ states
IdleTask ==
    [pc |-> "idle", obj |-> 0, is_mandatory |-> FALSE,
     result |-> [kind |-> "none", snap |-> None, err |-> "none"],
     entry |-> "none", early |-> FALSE, first |-> FALSE, waited |-> "none",
     start |-> "none",
     fetched |-> [st |-> "none", life |-> 0, at |-> 0]]

\* AioRefreshableCredentials.__init__ with key 0 and expiry e
NewRefreshable(e) ==
    [access_key |-> Some(0), expiry_time |-> Some(e), frozen |-> Some(0),
     locked |-> FALSE, waiters |-> <<>>]

\* AioDeferredRefreshableCredentials.__init__
NewDeferred ==
    [access_key |-> None, expiry_time |-> None, frozen |-> None,
     locked |-> FALSE, waiters |-> <<>>]

InitCreds == {NewDeferred} \cup {NewRefreshable(e) : e \in InitExpiry}

\* CredentialResolver.__init__(providers), before load_credentials is called
NewResolver(providers) ==
    [providers |-> providers, pc |-> "idle", idx |-> 0, loads |-> <<>>,
     result |-> [kind |-> "none", creds |-> None]]

\* A call of fetch_credentials that has not been made yet.
IdleFetch ==
    [pc |-> "idle", key |-> "none", window |-> 0, called |-> FALSE,
     raced |-> FALSE, raised |-> "none", result |-> [kind |-> "none", md |-> None, err |-> "none"]]

NoRefresh == cred = <<>> /\ task = [c \in Callers |-> IdleTask]
NoResolver == resolver = NewResolver(<<>>)
NoFetch == cache = [k \in CacheKeys |-> None] /\ fetch = [f \in Fetches |-> IdleFetch]

\* _Refresher.__init__; refreshes counts the calls of self._refresh().
NewRefresher == [has_been_called |-> FALSE, refreshes |-> 0]

\* An invocation of a wrapped refresher that has not been made yet.
IdleInvocation ==
    [pc |-> "idle", of |-> 0,
     result |-> [kind |-> "none", err |-> "none", md |-> None]]

NoMfa == mfa = <<>> /\ invocation = [i \in Invokers |-> IdleInvocation]

\* A profile of the loaded configuration; an absent setting is None.
Profile(role_arn, source_profile, credential_source, mfa_serial, static) ==
    [role_arn |-> role_arn, source_profile |-> source_profile,
     credential_source |-> credential_source, mfa_serial |-> mfa_serial,
     aws_access_key_id |-> static]

\* AssumeRoleProvider.__init__: the profile to load, whether a
\* profile_provider_builder was given, the visited profiles; sourced is what
\* credential_sourcer.source_credentials returns, loads the results of the
\* calls of load().
NewProvider(profiles, builder, sourced) ==
    [profiles |-> profiles, profile_name |-> "A", builder |-> builder,
     sourced |-> sourced, visited |-> <<"A">>, loads |-> <<>>]

\* A session: the profile set on the session itself (instance variable), the
\* profile named by the environment or the configuration, and whether
\* create_credential_resolver has been called with it.
NewSession(instance_profile, config_profile) ==
    [instance_profile |-> instance_profile, config_profile |-> config_profile,
     built |-> FALSE]

\* CanonicalNameCredentialSourcer.__init__(providers), before a lookup; rs
\* holds the loads source_credentials awaits: load_credentials of the
\* composite resolver, or the one load() of a single provider.
NewSourcer(providers) ==
    [providers |-> providers, pc |-> "idle", name |-> "none",
     source |-> "none", error |-> "none", rs |-> NewResolver(<<>>)]

NoSession == session = NewSession(None, None)
NoSourcer == sourcer = NewSourcer(<<>>)
\* ProcessProvider.__init__ before load(): whether the profile configures a
\* credential_process; runs counts the processes spawned, out is what the
\* process run by load() gave.
NewProcessProvider(configured) ==
    [credential_process |-> configured, pc |-> "idle", runs |-> 0,
     out |-> None, result |-> [kind |-> "none", err |-> "none", key |-> None]]

NoProcess == process = NewProcessProvider(FALSE)

NoAssumeRole ==
    /\ provider = NewProvider(<<>>, FALSE, None)
    /\ fetcher = <<>>
    /\ sts = <<>>

Init ==
    /\ now = 0
    /\ cred \in [Objects -> InitCreds]
    /\ task = [c \in Callers |-> IdleTask]
    /\ NoResolver
    /\ NoFetch
    /\ NoMfa
    /\ NoAssumeRole
    /\ NoSession
    /\ NoSourcer
    /\ NoProcess

Put(c, o, pair) ==
    /\ cred' = [cred EXCEPT ![o] = pair[1]]
    /\ task' = [task EXCEPT ![c] = pair[2]]

\* A caller that waited for the lock, as it goes on (the branch it waited in
\* is kept for the claims).
Woken(t) == [t EXCEPT !.waited = t.pc]

\* No call of get_frozen_credentials was made on object o yet (kept for the
\* claims).
NoneCalled(o) == \A c \in Callers : task[c].obj # o

\* No refresh_using call on object o has completed yet (kept for the claims).
NoneCompleted(o) ==
    \A c \in Callers : task[c].obj = o => task[c].fetched.st = "none"

\* ----------------------------------------------------------------- actions
\* The clock advances.
Tick ==
    /\ now < MaxTime
    /\ now' = now + 1
    /\ UNCHANGED <<refreshVars, resolverVars, fetchVars, mfaVars, assumeRoleVars,
                 chainVars>>

\* A caller invokes get_frozen_credentials on object o.
Call(c, o) ==
    /\ task[c].pc = "idle"
    /\ Put(c, o, refresh(cred[o],
                         [task[c] EXCEPT !.obj = o,
                                         !.entry = Window(cred[o], now),
                                         !.early = NoneCompleted(o),
                                         !.first = NoneCalled(o)],
                         c, now))
    /\ UNCHANGED <<now, resolverVars, fetchVars, mfaVars, assumeRoleVars,
                 chainVars>>

\* A woken waiter takes the lock and runs the body of its `async with`.
Acquire(c) ==
    LET o == task[c].obj IN
    /\ task[c].pc \in {"waitAdvisory", "waitMandatory"}
    /\ ~cred[o].locked
    /\ Head(cred[o].waiters) = c
    /\ LET r == lock_take([cred[o] EXCEPT !.waiters = Tail(@)])
       IN  IF task[c].pc = "waitAdvisory"
           THEN Put(c, o, refresh_locked_advisory(r, Woken(task[c]), now))
           ELSE Put(c, o, refresh_locked_mandatory(r, Woken(task[c]), now))
    /\ UNCHANGED <<now, resolverVars, fetchVars, mfaVars, assumeRoleVars,
                 chainVars>>

\* refresh_using returns metadata: key c, lifetime d from now.
RefreshReturns(c, d) ==
    LET o == task[c].obj IN
    /\ task[c].pc = "refreshing"
    /\ Put(c, o, protected_refresh_returned(
                     cred[o], task[c], [key |-> c, expiry |-> now + d], now))
    /\ UNCHANGED <<now, resolverVars, fetchVars, mfaVars, assumeRoleVars,
                 chainVars>>

\* refresh_using raises.
RefreshRaises(c) ==
    LET o == task[c].obj IN
    /\ task[c].pc = "refreshing"
    /\ Put(c, o, protected_refresh_raised(cred[o], task[c], "RefreshError", now))
    /\ UNCHANGED <<now, resolverVars, fetchVars, mfaVars, assumeRoleVars,
                 chainVars>>

Next ==
    \/ Tick
    \/ \E c \in Callers, o \in DOMAIN cred : Call(c, o)
    \/ \E c \in Callers : Acquire(c)
    \/ \E c \in Callers, d \in Durations : RefreshReturns(c, d)
    \/ \E c \in Callers : RefreshRaises(c)

Spec == Init /\ [][Next]_vars

\* The same under the scheduling the event loop gives: a waiter woken by the
\* release of the lock runs, and (the assumption made of refresh_using) an
\* invocation of refresh_using returns or raises.
RefreshEnds(c) ==
    \/ \E d \in Durations : RefreshReturns(c, d)
    \/ RefreshRaises(c)

SpecLive ==
    /\ Init /\ [][Next]_vars
    /\ \A c \in Callers : WF_vars(Acquire(c)) /\ WF_vars(RefreshEnds(c))

\* A deferred credential object alone: nothing was fetched at construction.
InitDeferred ==
    /\ now = 0
    /\ cred = [o \in Objects |-> NewDeferred]
    /\ task = [c \in Callers |-> IdleTask]
    /\ NoResolver
    /\ NoFetch
    /\ NoMfa
    /\ NoAssumeRole
    /\ NoSession
    /\ NoSourcer
    /\ NoProcess

SpecDeferred == InitDeferred /\ [][Next]_vars

\* Two credential objects, each constructed with a lock of its own, and the
\* callers of both.
PairObjects == {1, 2}
PairCallers == {1, 2}
InitPair ==
    /\ now = 0
    /\ cred \in [PairObjects -> InitCreds]
    /\ task = [c \in Callers |-> IdleTask]
    /\ NoResolver
    /\ NoFetch
    /\ NoMfa
    /\ NoAssumeRole
    /\ NoSession
    /\ NoSourcer
    /\ NoProcess

NextPair ==
    \/ Tick
    \/ \E c \in PairCallers, o \in DOMAIN cred : Call(c, o)
    \/ \E c \in PairCallers : Acquire(c)
    \/ \E c \in PairCallers, d \in Durations : RefreshReturns(c, d)
    \/ \E c \in PairCallers : RefreshRaises(c)

SpecPair == InitPair /\ [][NextPair]_vars

\* ---------------------------------------------------- AioCredentialResolver
\* Sequences over S without repetition, of length at most n.
SeqsNoRep(S, n) ==
    {q \in UNION {[1..k -> S] : k \in 0..n} :
        \A i, j \in 1..Len(q) : i # j => q[i] # q[j]}

\* What a provider's load() may do: return None, return credentials, raise.
Outcomes == {"null", "creds", "raise"}

\* load_credentials: the for loop reaches provider i; past the last
\* provider, None is returned.
load_credentials_from(rs, i) ==
    IF i > Len(rs.providers)
    THEN [rs EXCEPT !.pc = "done",
                    !.result = [kind |-> "return", creds |-> None]]
    ELSE [rs EXCEPT !.pc = "loading", !.idx = i,
                    !.loads = Append(@, [method |-> rs.providers[i],
                                         out |-> "pending"])]

\* Variant: the loop goes on after a provider returned credentials and the
\* last credentials found are returned.
provider_loaded_keeps_going(rs, out) ==
    LET logged == [rs EXCEPT !.loads[Len(rs.loads)].out = out]
        kept == IF out = "creds"
                THEN [logged EXCEPT !.result.creds = Some(rs.providers[rs.idx])]
                ELSE logged
    IN  IF out = "raise"
        THEN [kept EXCEPT !.pc = "done", !.result.kind = "raise"]
        ELSE IF rs.idx < Len(rs.providers)
        THEN load_credentials_from(kept, rs.idx + 1)
        ELSE [kept EXCEPT !.pc = "done", !.result.kind = "return"]

\* Variant: a provider whose load() raises counts as having no credentials.
provider_loaded_raise_as_none(rs, out) ==
    LET logged == [rs EXCEPT !.loads[Len(rs.loads)].out = out]
    IN  IF out = "creds"
        THEN [logged EXCEPT !.pc = "done",
                            !.result = [kind |-> "return",
                                        creds |-> Some(rs.providers[rs.idx])]]
        ELSE load_credentials_from(logged, rs.idx + 1)

\* load_credentials after `await provider.load()` of provider idx ended.
provider_loaded(rs, out) ==
    LET logged == [rs EXCEPT !.loads[Len(rs.loads)].out = out]
    IN  IF out = "raise"
        THEN [logged EXCEPT !.pc = "done",
                            !.result = [kind |-> "raise", creds |-> None]]
        ELSE IF out = "creds"
        THEN [logged EXCEPT !.pc = "done",
                            !.result = [kind |-> "return",
                                        creds |-> Some(rs.providers[rs.idx])]]
        ELSE load_credentials_from(logged, rs.idx + 1)

InitResolver ==
    /\ now = 0
    /\ NoRefresh
    /\ NoFetch
    /\ NoMfa
    /\ NoAssumeRole
    /\ NoSession
    /\ NoSourcer
    /\ NoProcess
    /\ resolver \in {NewResolver(q) : q \in SeqsNoRep(Methods, MaxProviders)}

\* load_credentials is called.
LoadCredentials ==
    /\ resolver.pc = "idle"
    /\ resolver' = load_credentials_from(resolver, 1)
    /\ UNCHANGED <<now, refreshVars, fetchVars, mfaVars, assumeRoleVars,
                 chainVars>>

\* The load() of the provider being awaited ends.
ProviderLoad(out) ==
    /\ resolver.pc = "loading"
    /\ resolver' = provider_loaded(resolver, out)
    /\ UNCHANGED <<now, refreshVars, fetchVars, mfaVars, assumeRoleVars,
                 chainVars>>

NextResolver ==
    \/ LoadCredentials
    \/ \E out \in Outcomes : ProviderLoad(out)

SpecResolver == InitResolver /\ [][NextResolver]_vars

\* ------------------------------------------------ create_credential_resolver
\* session.get_config_variable('profile'): the instance variable, else what
\* the environment or the configuration names.
config_variable_profile(ss) ==
    IF ss.instance_profile # None THEN ss.instance_profile
    ELSE ss.config_profile

\* ProfileProviderBuilder.providers: the providers AioProfileProviderBuilder
\* creates for a profile, by METHOD.
profile_providers ==
    <<"assume-role-with-web-identity", "shared-credentials-file",
      "custom-process", "config-file">>

\* list.remove: the sequence without the first occurrence of x.
remove(q, x) ==
    LET at == {n \in 1..Len(q) : q[n] = x}
        first == CHOOSE n \in at : \A m \in at : n <= m
    IN  SubSeq(q, 1, first - 1) \o SubSeq(q, first + 1, Len(q))

\* Variant: the EnvProvider is left in the chain.
create_credential_resolver_keeps_env(ss) ==
    LET disable_env_vars == ss.instance_profile # None
        profile == config_variable_profile(ss)
        providers == <<"env", "assume-role">> \o profile_providers
                     \o <<"ec2-credentials-file", "boto-config",
                          "container-role", "iam-role">>
    IN  [providers |-> providers,
         profile_name |-> IF profile # None THEN profile[1] ELSE "default",
         disable_env_vars |-> disable_env_vars]

\* create_credential_resolver: the providers of the resolver by METHOD, the
\* profile and the disable_env_vars the profile providers are built with.
create_credential_resolver(ss) ==
    LET disable_env_vars == ss.instance_profile # None
        profile == config_variable_profile(ss)
        providers == <<"env", "assume-role">> \o profile_providers
                     \o <<"ec2-credentials-file", "boto-config",
                          "container-role", "iam-role">>
    IN  [providers |-> IF disable_env_vars THEN remove(providers, "env")
                                           ELSE providers,
         profile_name |-> IF profile # None THEN profile[1] ELSE "default",
         disable_env_vars |-> disable_env_vars]

\* The sessions: a profile set on the session or not, a profile named by the
\* environment or not.
Sessions ==
    {NewSession(i, c) : i \in {None, Some("dev"), Some("prod")},
                        c \in {None, Some("work")}}

InitChain ==
    /\ now = 0
    /\ NoRefresh
    /\ NoFetch
    /\ NoMfa
    /\ NoAssumeRole
    /\ NoSourcer
    /\ NoProcess
    /\ session \in Sessions
    /\ resolver = [NewResolver(<<>>) EXCEPT !.pc = "unbuilt"]

\* create_credential_resolver(session) is called.
CreateCredentialResolver ==
    /\ ~session.built
    /\ session' = [session EXCEPT !.built = TRUE]
    /\ resolver' = NewResolver(create_credential_resolver(session).providers)
    /\ UNCHANGED <<now, refreshVars, fetchVars, mfaVars, assumeRoleVars,
                   sourcer, process>>

NextChain ==
    \/ CreateCredentialResolver
    \/ LoadCredentials
    \/ \E out \in Outcomes : ProviderLoad(out)

SpecChain == InitChain /\ [][NextChain]_vars

\* ----------------------------------------- AioCanonicalNameCredentialSourcer
\* The providers a sourcer may be given, with METHOD and CANONICAL_NAME
\* (the assume-role provider has none).
SourceProviders ==
    {[method |-> "assume-role", canonical |-> None],
     [method |-> "config-file", canonical |-> Some("SharedConfig")],
     [method |-> "shared-credentials-file", canonical |-> Some("SharedCredentials")],
     [method |-> "env", canonical |-> Some("Environment")]}

\* The values of credential_source looked up, and str.lower() on the names
\* that occur.
SourceNames ==
    {"SharedConfig", "sharedconfig", "SHAREDCREDENTIALS", "Environment",
     "environment", "EcsContainer"}
lower(name) ==
    CASE name \in {"SharedConfig", "sharedconfig"} -> "sharedconfig"
      [] name \in {"SharedCredentials", "SHAREDCREDENTIALS"} -> "sharedcredentials"
      [] name \in {"Environment", "environment"} -> "environment"
      [] name = "EcsContainer" -> "ecscontainer"

\* The first element of q that satisfies Test, as Some, or None.
first_where(q, Test(_)) ==
    LET at == {n \in 1..Len(q) : Test(q[n])}
    IN  IF at = {} THEN None
        ELSE Some(q[CHOOSE n \in at : \A m \in at : n <= m])

\* CanonicalNameCredentialSourcer._get_provider_by_canonical_name
get_provider_by_canonical_name(providers, canonical_name) ==
    LET Named(p) == p.canonical # None
                    /\ lower(p.canonical[1]) = lower(canonical_name)
    IN  first_where(providers, Named)

\* CanonicalNameCredentialSourcer._get_provider_by_method
get_provider_by_method(providers, method) ==
    LET ByMethod(p) == p.method = method
    IN  first_where(providers, ByMethod)

\* Variant: the composite resolver tries the named provider first.
get_provider_named_first(providers, canonical_name) ==
    LET named == get_provider_by_canonical_name(providers, canonical_name)
        assume_role_provider == get_provider_by_method(providers, "assume-role")
    IN  IF /\ lower(canonical_name) \in {"sharedconfig", "sharedcredentials"}
           /\ assume_role_provider # None
        THEN IF named = None
             THEN [kind |-> "provider", of |-> <<"assume-role">>]
             ELSE [kind |-> "resolver", of |-> <<named[1].method, "assume-role">>]
        ELSE IF named = None
        THEN [kind |-> "raise", of |-> <<>>]
        ELSE [kind |-> "provider", of |-> <<named[1].method>>]

\* AioCanonicalNameCredentialSourcer._get_provider: a provider, an
\* AioCredentialResolver over two providers, or UnknownCredentialError.
get_provider(providers, canonical_name) ==
    LET named == get_provider_by_canonical_name(providers, canonical_name)
        assume_role_provider == get_provider_by_method(providers, "assume-role")
    IN  IF /\ lower(canonical_name) \in {"sharedconfig", "sharedcredentials"}
           /\ assume_role_provider # None
        THEN IF named = None
             THEN [kind |-> "provider", of |-> <<"assume-role">>]
             ELSE [kind |-> "resolver", of |-> <<"assume-role", named[1].method>>]
        ELSE IF named = None
        THEN [kind |-> "raise", of |-> <<>>]
        ELSE [kind |-> "provider", of |-> <<named[1].method>>]

InitSourcer ==
    /\ now = 0
    /\ NoRefresh
    /\ NoResolver
    /\ NoFetch
    /\ NoMfa
    /\ NoAssumeRole
    /\ NoSession
    /\ NoProcess
    /\ sourcer \in {NewSourcer(q) : q \in SeqsNoRep(SourceProviders, MaxProviders)}

\* source_credentials(source_name) is called: the source is looked up and
\* its load begins.
SourceCredentials(source_name) ==
    /\ sourcer.pc = "idle"
    /\ LET source == get_provider(sourcer.providers, source_name)
       IN  sourcer' =
             IF source.kind = "raise"
             THEN [sourcer EXCEPT !.pc = "done", !.name = source_name,
                                  !.source = source.kind,
                                  !.error = "UnknownCredentialError"]
             ELSE [sourcer EXCEPT !.pc = "loading", !.name = source_name,
                                  !.source = source.kind,
                                  !.rs = load_credentials_from(
                                             NewResolver(source.of), 1)]
    /\ UNCHANGED <<now, refreshVars, resolverVars, fetchVars, mfaVars,
                   assumeRoleVars, session, process>>

\* The load() awaited by the source ends.
SourceLoad(out) ==
    /\ sourcer.pc = "loading"
    /\ LET rs == provider_loaded(sourcer.rs, out)
       IN  sourcer' = [sourcer EXCEPT
                         !.rs = rs,
                         !.pc = IF rs.pc = "done" THEN "done" ELSE "loading",
                         !.error = IF rs.result.kind = "raise" THEN "LoadError"
                                                               ELSE "none"]
    /\ UNCHANGED <<now, refreshVars, resolverVars, fetchVars, mfaVars,
                   assumeRoleVars, session, process>>

NextSourcer ==
    \/ \E source_name \in SourceNames : SourceCredentials(source_name)
    \/ \E out \in Outcomes : SourceLoad(out)

SpecSourcer == InitSourcer /\ [][NextSourcer]_vars

\* --------------------------------------------------------- AioProcessProvider
\* What a credential process may give: an exit code and, on stdout, a JSON
\* object in which each of the keys may be missing; credentials `key` that
\* expire at one of the times of `expiries`.
ProcessOutputs(key, expiries) ==
    [returncode : {0, 1},
     Version : {None, Some(1), Some(2)},
     AccessKeyId : {None, Some(key)},
     SecretAccessKey : {None, Some(key)},
     Expiration : {None} \cup {Some(e) : e \in expiries}]

\* Variant: the exit code is not looked at.
retrieve_credentials_using_any_exit_code(out) ==
    IF out.Version # Some(1)
    THEN [kind |-> "raise", err |-> "CredentialRetrievalError", md |-> None]
    ELSE IF out.AccessKeyId = None \/ out.SecretAccessKey = None
    THEN [kind |-> "raise", err |-> "CredentialRetrievalError", md |-> None]
    ELSE [kind |-> "return", err |-> "none",
          md |-> Some([access_key |-> out.AccessKeyId[1],
                       secret_key |-> out.SecretAccessKey[1],
                       expiry_time |-> out.Expiration])]

\* _retrieve_credentials_using after the process ended with `out`.
retrieve_credentials_using(out) ==
    IF out.returncode # 0
    THEN [kind |-> "raise", err |-> "CredentialRetrievalError", md |-> None]
    ELSE IF out.Version # Some(1)
    THEN [kind |-> "raise", err |-> "CredentialRetrievalError", md |-> None]
    ELSE IF out.AccessKeyId = None \/ out.SecretAccessKey = None
    THEN [kind |-> "raise", err |-> "CredentialRetrievalError", md |-> None]
    ELSE [kind |-> "return", err |-> "none",
          md |-> Some([access_key |-> out.AccessKeyId[1],
                       secret_key |-> out.SecretAccessKey[1],
                       expiry_time |-> out.Expiration])]

\* RefreshableCredentials.create_from_metadata
create_from_metadata(md) ==
    [access_key |-> Some(md.access_key), expiry_time |-> md.expiry_time,
     frozen |-> Some(md.access_key), locked |-> FALSE, waiters |-> <<>>]

\* load() up to its await: without credential_process it returns None,
\* otherwise the process is spawned.
process_load_begin(pp) ==
    IF ~pp.credential_process
    THEN [pp EXCEPT !.pc = "done", !.result.kind = "null"]
    ELSE [pp EXCEPT !.pc = "running", !.runs = @ + 1]

\* load() after the process ended with `out`.
process_load_end(pp, out) ==
    LET creds_dict == retrieve_credentials_using(out)
        done == [pp EXCEPT !.pc = "done", !.out = Some(out)]
    IN  IF creds_dict.kind = "raise"
        THEN [done EXCEPT !.result.kind = "raise", !.result.err = creds_dict.err]
        ELSE IF creds_dict.md[1].expiry_time # None
        THEN [done EXCEPT !.result.kind = "refreshable",
                          !.result.key = Some(creds_dict.md[1].access_key)]
        ELSE [done EXCEPT !.result.kind = "static",
                          !.result.key = Some(creds_dict.md[1].access_key)]

InitProcess ==
    /\ now = 0
    /\ NoRefresh
    /\ NoResolver
    /\ NoFetch
    /\ NoMfa
    /\ NoAssumeRole
    /\ NoSession
    /\ NoSourcer
    /\ process \in {NewProcessProvider(b) : b \in BOOLEAN}

\* The clock advances.
ProcessTick ==
    /\ now < MaxTime
    /\ now' = now + 1
    /\ UNCHANGED <<refreshVars, resolverVars, fetchVars, mfaVars,
                   assumeRoleVars, chainVars>>

\* load() is called on the provider.
ProcessLoad ==
    /\ process.pc = "idle"
    /\ process' = process_load_begin(process)
    /\ UNCHANGED <<now, refreshVars, resolverVars, fetchVars, mfaVars,
                   assumeRoleVars, session, sourcer>>

\* The process spawned by load() ends with `out`; a refreshable credential
\* becomes credential object 1.
ProcessExits(out) ==
    /\ process.pc = "running"
    /\ process' = process_load_end(process, out)
    /\ cred' = IF process'.result.kind = "refreshable"
               THEN <<create_from_metadata(retrieve_credentials_using(out).md[1])>>
               ELSE cred
    /\ UNCHANGED <<now, task, resolverVars, fetchVars, mfaVars,
                   assumeRoleVars, session, sourcer>>

\* Caller c has just reached the state `pair`; if it is in
\* _protected_refresh, refresh_using spawns the process again.
RerunProcess(c, pair) ==
    /\ Put(c, 1, pair)
    /\ process' = IF pair[2].pc = "refreshing"
                  THEN [process EXCEPT !.runs = @ + 1]
                  ELSE process

\* Caller c invokes get_frozen_credentials on the loaded credential.
ProcessGetFrozen(c) ==
    /\ process.result.kind = "refreshable"
    /\ task[c].pc = "idle"
    /\ RerunProcess(c, refresh(cred[1],
                               [task[c] EXCEPT !.obj = 1,
                                               !.entry = Window(cred[1], now),
                                               !.early = NoneCompleted(1),
                                               !.first = NoneCalled(1)],
                               c, now))
    /\ UNCHANGED <<now, resolverVars, fetchVars, mfaVars, assumeRoleVars,
                   session, sourcer>>

\* A woken waiter takes the lock and runs the body of its `async with`.
ProcessAcquire(c) ==
    /\ task[c].pc \in {"waitAdvisory", "waitMandatory"}
    /\ ~cred[1].locked
    /\ Head(cred[1].waiters) = c
    /\ LET r == lock_take([cred[1] EXCEPT !.waiters = Tail(@)])
       IN  IF task[c].pc = "waitAdvisory"
           THEN RerunProcess(c, refresh_locked_advisory(r, Woken(task[c]), now))
           ELSE RerunProcess(c, refresh_locked_mandatory(r, Woken(task[c]), now))
    /\ UNCHANGED <<now, resolverVars, fetchVars, mfaVars, assumeRoleVars,
                   session, sourcer>>

\* The process spawned by a refresh ends with `out` (a valid response of a
\* process whose first response had an Expiration has one too).
RerunExits(c, out) ==
    LET creds_dict == retrieve_credentials_using(out) IN
    /\ task[c].pc = "refreshing"
    /\ creds_dict.kind = "return" => out.Expiration # None
    /\ IF creds_dict.kind = "raise"
       THEN Put(c, 1, protected_refresh_raised(cred[1], task[c], creds_dict.err, now))
       ELSE Put(c, 1, protected_refresh_returned(
                          cred[1], task[c],
                          [key |-> creds_dict.md[1].access_key,
                           expiry |-> creds_dict.md[1].expiry_time[1]], now))
    /\ UNCHANGED <<now, resolverVars, fetchVars, mfaVars, assumeRoleVars,
                   chainVars>>

NextProcess ==
    \/ ProcessTick
    \/ ProcessLoad
    \/ \E out \in ProcessOutputs(0, {now + d : d \in Durations}) : ProcessExits(out)
    \/ \E c \in RoleCallers : ProcessGetFrozen(c)
    \/ \E c \in RoleCallers : ProcessAcquire(c)
    \/ \E c \in RoleCallers :
          \E out \in ProcessOutputs(c, {now + d : d \in Durations}) : RerunExits(c, out)

SpecProcess == InitProcess /\ [][NextProcess]_vars

\* ----------------------------------------------- AioCachedCredentialFetcher
\* A datetime, and the ISO-8601 string _serialize_if_needed(.., iso=True)
\* makes of it; _parse_if_needed reads either back to the time.
DateTime(t) == [repr |-> "datetime", at |-> t]
serialize_if_needed(v) ==
    IF v.repr = "datetime" THEN [repr |-> "iso", at |-> v.at] ELSE v
parse_if_needed(v) == v.at

\* CachedCredentialFetcher._is_expired: less than the expiry window remains.
cache_is_expired(response, window, tm) ==
    parse_if_needed(response.Expiration) - tm < window

\* CachedCredentialFetcher._load_from_cache: the entry, if any and not
\* expired, else None.
load_from_cache(c, key, window, tm) ==
    IF c[key] # None
    THEN IF ~cache_is_expired(c[key][1], window, tm) THEN c[key] ELSE None
    ELSE None

\* CachedCredentialFetcher._write_to_cache
write_to_cache(c, key, response) == [c EXCEPT ![key] = Some(response)]

\* _get_cached_credentials: the normalized metadata made of a response.
normalized(response) ==
    [access_key |-> response.AccessKeyId,
     expiry_time |-> serialize_if_needed(response.Expiration)]

\* Variant: the cache is never consulted.
get_cached_credentials_begin_no_lookup(c, ft, tm) ==
    <<c, [ft EXCEPT !.pc = "getting", !.called = TRUE]>>

\* _get_cached_credentials up to its await: a usable cache entry is returned
\* at once, otherwise _get_credentials is invoked.
get_cached_credentials_begin(c, ft, tm) ==
    LET response == load_from_cache(c, ft.key, ft.window, tm)
    IN  IF response = None
        THEN <<c, [ft EXCEPT !.pc = "getting", !.called = TRUE]>>
        ELSE <<c, [ft EXCEPT !.pc = "done",
                             !.result = [kind |-> "return",
                                         md |-> Some(normalized(response[1])),
                                         err |-> "none"]]>>

\* Variant: a response that finds an entry written meanwhile is dropped for
\* that entry.
get_cached_credentials_returned_first_kept(c, ft, response) ==
    IF c[ft.key] # None
    THEN <<c, [ft EXCEPT !.pc = "done",
                         !.result = [kind |-> "return",
                                     md |-> Some(normalized(c[ft.key][1])),
                                     err |-> "none"]]>>
    ELSE <<write_to_cache(c, ft.key, response),
           [ft EXCEPT !.pc = "done",
                      !.result = [kind |-> "return",
                                  md |-> Some(normalized(response)),
                                  err |-> "none"]]>>

\* _get_cached_credentials after _get_credentials returned a response.
get_cached_credentials_returned(c, ft, response) ==
    <<write_to_cache(c, ft.key, response),
      [ft EXCEPT !.pc = "done",
                 !.result = [kind |-> "return",
                             md |-> Some(normalized(response)),
                             err |-> "none"]]>>

\* Variant: _get_credentials is tried again after it raised.
get_cached_credentials_raised_retried(c, ft, e) ==
    <<c, [ft EXCEPT !.pc = "getting", !.raised = e]>>

\* _get_cached_credentials after _get_credentials raised e: nothing catches
\* it, the statements after the await are skipped.
get_cached_credentials_raised(c, ft, e) ==
    <<c, [ft EXCEPT !.pc = "done", !.raised = e,
                    !.result = [kind |-> "raise", md |-> None, err |-> e]]>>

PutFetch(f, pair) ==
    /\ cache' = pair[1]
    /\ fetch' = [fetch EXCEPT ![f] = pair[2]]

\* The errors _get_credentials raises.
FetchErrors == {"ClientError", "EndpointConnectionError"}

InitFetcher ==
    /\ now = 0
    /\ NoRefresh
    /\ NoResolver
    /\ NoFetch
    /\ NoMfa
    /\ NoAssumeRole
    /\ NoSession
    /\ NoSourcer
    /\ NoProcess

\* The clock advances.
FetcherTick ==
    /\ now < MaxTime
    /\ now' = now + 1
    /\ UNCHANGED <<refreshVars, resolverVars, fetchVars, mfaVars, assumeRoleVars,
                 chainVars>>

\* Another fetcher with cache key k is awaiting its _get_credentials (kept
\* in the call's record for the claims).
InFlightFor(k) == \E g \in Fetches : fetch[g].pc = "getting" /\ fetch[g].key = k

\* fetch_credentials is called on a fetcher with cache key k and expiry
\* window w.
FetchCredentials(f, k, w) ==
    /\ fetch[f].pc = "idle"
    /\ PutFetch(f, get_cached_credentials_begin(
                       cache, [fetch[f] EXCEPT !.key = k, !.window = w,
                                               !.raced = InFlightFor(k)], now))
    /\ UNCHANGED <<now, refreshVars, resolverVars, mfaVars, assumeRoleVars,
                 chainVars>>

\* _get_credentials returns a response: credentials f that expire d from now.
GetCredentialsReturns(f, d) ==
    /\ fetch[f].pc = "getting"
    /\ PutFetch(f, get_cached_credentials_returned(
                       cache, fetch[f],
                       [AccessKeyId |-> f, Expiration |-> DateTime(now + d)]))
    /\ UNCHANGED <<now, refreshVars, resolverVars, mfaVars, assumeRoleVars,
                 chainVars>>

\* _get_credentials raises e.
GetCredentialsRaises(f, e) ==
    /\ fetch[f].pc = "getting"
    /\ PutFetch(f, get_cached_credentials_raised(cache, fetch[f], e))
    /\ UNCHANGED <<now, refreshVars, resolverVars, mfaVars, assumeRoleVars,
                 chainVars>>

NextFetcher ==
    \/ FetcherTick
    \/ \E f \in Fetches, k \in CacheKeys, w \in ExpiryWindows :
          FetchCredentials(f, k, w)
    \/ \E f \in Fetches, d \in Durations : GetCredentialsReturns(f, d)
    \/ \E f \in Fetches, e \in FetchErrors : GetCredentialsRaises(f, e)

SpecFetcher == InitFetcher /\ [][NextFetcher]_vars

\* ------------------------------------------ create_aio_mfa_serial_refresher
\* Variant: the flag is not set before the wrapped refresher is awaited.
refresher_call_flag_unset(m) ==
    IF m.has_been_called
    THEN [m |-> m, out |-> "raise"]
    ELSE [m |-> [m EXCEPT !.refreshes = @ + 1], out |-> "refresh"]

\* Variant: the wrapped refresher may be invoked a second time.
refresher_call_one_retry(m) ==
    IF m.has_been_called /\ m.refreshes >= 2
    THEN [m |-> m, out |-> "raise"]
    ELSE [m |-> [m EXCEPT !.has_been_called = TRUE, !.refreshes = @ + 1],
          out |-> "refresh"]

\* _Refresher.call up to its await: a used refresher raises, an unused one
\* is marked used and the wrapped refresher is invoked.
refresher_call(m) ==
    IF m.has_been_called
    THEN [m |-> m, out |-> "raise"]
    ELSE [m |-> [m EXCEPT !.has_been_called = TRUE, !.refreshes = @ + 1],
          out |-> "refresh"]

InitMfa ==
    /\ now = 0
    /\ NoRefresh
    /\ NoResolver
    /\ NoFetch
    /\ mfa = [w \in Wrappers |-> NewRefresher]
    /\ invocation = [i \in Invokers |-> IdleInvocation]
    /\ NoAssumeRole
    /\ NoSession
    /\ NoSourcer
    /\ NoProcess

\* Invocation i calls the refresher w.
RefresherCall(i, w) ==
    /\ invocation[i].pc = "idle"
    /\ LET called == refresher_call(mfa[w])
       IN  /\ mfa' = [mfa EXCEPT ![w] = called.m]
           /\ invocation' =
                [invocation EXCEPT ![i] =
                    IF called.out = "raise"
                    THEN [@ EXCEPT !.pc = "done", !.of = w,
                                   !.result.kind = "raise",
                                   !.result.err = "RefreshWithMFAUnsupportedError"]
                    ELSE [@ EXCEPT !.pc = "awaiting", !.of = w]]
    /\ UNCHANGED <<now, refreshVars, resolverVars, fetchVars, assumeRoleVars,
                 chainVars>>

\* The wrapped refresher returns metadata: key i, lifetime d.
WrappedReturns(i, d) ==
    /\ invocation[i].pc = "awaiting"
    /\ invocation' =
         [invocation EXCEPT ![i] =
             [@ EXCEPT !.pc = "done", !.result.kind = "return",
                       !.result.md = Some([key |-> i, expiry |-> now + d])]]
    /\ UNCHANGED <<now, refreshVars, resolverVars, fetchVars, mfa, assumeRoleVars,
                 chainVars>>

\* The wrapped refresher raises.
WrappedRaises(i) ==
    /\ invocation[i].pc = "awaiting"
    /\ invocation' =
         [invocation EXCEPT ![i] =
             [@ EXCEPT !.pc = "done", !.result.kind = "raise",
                       !.result.err = "RefreshError"]]
    /\ UNCHANGED <<now, refreshVars, resolverVars, fetchVars, mfa, assumeRoleVars,
                 chainVars>>

NextMfa ==
    \/ \E i \in Invokers, w \in Wrappers : RefresherCall(i, w)
    \/ \E i \in Invokers, d \in Durations : WrappedReturns(i, d)
    \/ \E i \in Invokers : WrappedRaises(i)

SpecMfa == InitMfa /\ [][NextMfa]_vars

\* ---------------------------------------------------- AioAssumeRoleProvider
\* Credentials with fixed keys (AioCredentials), and what the missing await
\* of _resolve_credentials_from_profile's last line returns instead of
\* credentials: the coroutine of _load_creds_via_assume_role.
Static(key) == [kind |-> "static", access_key |-> key]
Coroutine(name) == [kind |-> "coroutine", access_key |-> name]

\* AssumeRoleProvider._has_static_credentials
has_static_credentials(profile) == profile.aws_access_key_id # None

\* AssumeRoleProvider._has_assume_role_config_vars
has_assume_role_config_vars(profile) == profile.role_arn # None

\* AssumeRoleProvider._validate_source_profile: None, or the error raised.
validate_source_profile(prov, parent, source) ==
    IF source \notin DOMAIN prov.profiles THEN Some("InvalidConfigError")
    ELSE IF \A n \in 1..Len(prov.visited) : prov.visited[n] # source THEN None
    ELSE IF source # parent THEN Some("InfiniteLoopConfigError")
    ELSE IF ~has_static_credentials(prov.profiles[source])
    THEN Some("InfiniteLoopConfigError")
    ELSE None

\* AssumeRoleProvider._get_role_config: None, or the error raised.
get_role_config(prov, name) ==
    LET profile == prov.profiles[name] IN
    IF profile.credential_source # None /\ profile.source_profile # None
    THEN Some("InvalidConfigError")
    ELSE IF profile.credential_source = None /\ profile.source_profile = None
    THEN Some("PartialCredentialsError")
    ELSE IF profile.credential_source # None THEN None
    ELSE validate_source_profile(prov, name, profile.source_profile[1])

\* _resolve_static_credentials_from_profile
resolve_static_credentials_from_profile(profile) ==
    [kind |-> "creds", creds |-> Static(profile.aws_access_key_id[1]),
     err |-> "none"]

\* What the provider chain the profile_provider_builder makes for a profile
\* loads: the profile's static keys, else None.
profile_chain_load(profile) ==
    IF has_static_credentials(profile)
    THEN Some(Static(profile.aws_access_key_id[1]))
    ELSE None

\* _resolve_credentials_from_profile; without a profile_provider_builder the
\* second branch asks None for its providers.
resolve_credentials_from_profile(prov, name) ==
    LET profile == prov.profiles[name] IN
    IF has_static_credentials(profile) /\ ~prov.builder
    THEN resolve_static_credentials_from_profile(profile)
    ELSE IF has_static_credentials(profile)
            \/ ~has_assume_role_config_vars(profile)
    THEN LET credentials == profile_chain_load(profile)
         IN  IF ~prov.builder
             THEN [kind |-> "raise", creds |-> None, err |-> "AttributeError"]
             ELSE IF credentials = None
             THEN [kind |-> "raise", creds |-> None, err |-> "InvalidConfigError"]
             ELSE [kind |-> "creds", creds |-> credentials[1], err |-> "none"]
    ELSE [kind |-> "creds", creds |-> Coroutine(name), err |-> "none"]

\* Variant: what the source returns is passed on unchecked.
resolve_credentials_from_source_unchecked(prov) ==
    IF prov.sourced = None
    THEN [kind |-> "creds", creds |-> None, err |-> "none"]
    ELSE [kind |-> "creds", creds |-> prov.sourced[1], err |-> "none"]

\* _resolve_credentials_from_source
resolve_credentials_from_source(prov) ==
    IF prov.sourced = None
    THEN [kind |-> "raise", creds |-> None, err |-> "CredentialRetrievalError"]
    ELSE [kind |-> "creds", creds |-> prov.sourced[1], err |-> "none"]

\* _resolve_source_credentials: the provider (a source profile is appended
\* to the visited profiles) and the credentials or the error.
resolve_source_credentials(prov, name) ==
    LET role_config == prov.profiles[name] IN
    IF role_config.credential_source # None
    THEN [prov |-> prov, res |-> resolve_credentials_from_source(prov)]
    ELSE LET source_profile == role_config.source_profile[1]
             visited == [prov EXCEPT !.visited = Append(@, source_profile)]
         IN  [prov |-> visited,
              res |-> resolve_credentials_from_profile(visited, source_profile)]

\* _load_creds_via_assume_role: the provider, the result of the call and the
\* fetcher the new credential object refreshes with.
load_creds_via_assume_role(prov, name) ==
    LET invalid == get_role_config(prov, name)
        source == resolve_source_credentials(prov, name)
        role_config == prov.profiles[name]
    IN  IF invalid # None
        THEN [prov |-> prov, fetcher |-> None,
              result |-> [kind |-> "raise", err |-> invalid[1]]]
        ELSE IF source.res.kind = "raise"
        THEN [prov |-> source.prov, fetcher |-> None,
              result |-> [kind |-> "raise", err |-> source.res.err]]
        ELSE [prov |-> source.prov,
              fetcher |-> Some([role_arn |-> role_config.role_arn[1],
                                source_credentials |-> source.res.creds,
                                mfa |-> role_config.mfa_serial # None,
                                window |-> DefaultExpiryWindow]),
              result |-> [kind |-> "creds", err |-> "none"]]

\* AioAssumeRoleProvider.load
load(prov) ==
    IF /\ prov.profile_name \in DOMAIN prov.profiles
       /\ has_assume_role_config_vars(prov.profiles[prov.profile_name])
    THEN load_creds_via_assume_role(prov, prov.profile_name)
    ELSE [prov |-> prov, fetcher |-> None,
          result |-> [kind |-> "none", err |-> "none"]]

\* Variant: the client is made without the source credentials.
create_client_without_keys(source_credentials) ==
    IF source_credentials.kind = "static"
    THEN [kind |-> "client", signer |-> "none"]
    ELSE [kind |-> "raise", signer |-> "none"]

\* AioAssumeRoleCredentialFetcher._create_client: an STS client signing with
\* the frozen source credentials; what is not a credential object has no
\* get_frozen_credentials.
create_client(source_credentials) ==
    IF source_credentials.kind = "static"
    THEN [kind |-> "client", signer |-> source_credentials.access_key]
    ELSE [kind |-> "raise", signer |-> "none"]

\* RefreshableCredentials._set_from_data reads the metadata the fetcher made.
metadata(n) == [key |-> n.access_key, expiry |-> parse_if_needed(n.expiry_time)]

\* The configurations: A assumes a role from source profile B with static
\* keys, with and without mfa_serial; A has only static keys; A assumes a role
\* from a credential_source; A's source profile B assumes a role itself, from
\* source profile C with static keys; B has no settings at all; the source
\* profiles of A and B name each other; A names itself.
StaticB == Profile(None, None, None, None, Some("B-key"))
RoleFrom(source_profile) ==
    Profile(Some("role-x"), Some(source_profile), None, None, None)
ProfileMaps ==
    {[A |-> Profile(Some("role-x"), Some("B"), None, m, None), B |-> StaticB] :
        m \in {None, Some("mfa-device")}}
    \cup {[A |-> Profile(None, None, None, None, Some("A-key")), B |-> StaticB]}
    \cup {[A |-> Profile(Some("role-x"), None, Some("Environment"), None, None),
           B |-> StaticB]}
    \cup {[A |-> RoleFrom("B"),
           B |-> Profile(Some("role-y"), Some("C"), None, None, None),
           C |-> Profile(None, None, None, None, Some("C-key"))]}
    \cup {[A |-> RoleFrom("B"), B |-> Profile(None, None, None, None, None)]}
    \cup {[A |-> RoleFrom("B"),
           B |-> Profile(Some("role-y"), Some("A"), None, None, None)]}
    \cup {[A |-> RoleFrom("A"), B |-> StaticB]}

\* The cache handed to the provider: empty, or holding for the role an entry
\* of an earlier run (credentials 0) with one of the expiry times.
InitCaches ==
    {[k \in CacheKeys |-> None]}
    \cup {[k \in CacheKeys |->
              IF k = "role-x"
              THEN Some([AccessKeyId |-> 0, Expiration |-> DateTime(e)])
              ELSE None] : e \in InitExpiry}

InitAssumeRole ==
    /\ now = 0
    /\ NoRefresh
    /\ NoResolver
    /\ cache \in InitCaches
    /\ fetch = [f \in Fetches |-> IdleFetch]
    /\ NoMfa
    /\ NoSession
    /\ NoSourcer
    /\ NoProcess
    /\ fetcher = <<>>
    /\ sts = <<>>
    /\ \E pm \in ProfileMaps, b \in BOOLEAN, sd \in {None, Some(Static("env-key"))} :
          /\ (pm.A.credential_source = None => sd = None)
          /\ provider = NewProvider(pm, b, sd)

\* load() is called on the provider.
AssumeRoleLoad ==
    /\ Len(provider.loads) + 1 \in LoadCalls
    /\ LET loaded == load(provider)
       IN  /\ provider' = [loaded.prov EXCEPT !.loads = Append(@, loaded.result)]
           /\ IF loaded.result.kind = "creds"
              THEN /\ cred' = Append(cred, NewDeferred)
                   /\ fetcher' = Append(fetcher, loaded.fetcher[1])
                   /\ mfa' = Append(mfa, NewRefresher)
              ELSE UNCHANGED <<cred, fetcher, mfa>>
    /\ UNCHANGED <<now, task, resolverVars, fetchVars, invocation, sts,
                 chainVars>>

\* Caller c has just reached the state `pair` of object o and itself; if it
\* is in _protected_refresh, refresh_using runs up to its await: the MFA
\* wrapper if there is one, the cache lookup, the client and the assume-role
\* request.
UseRefresher(c, o, pair) ==
    LET f == fetcher[o]
        called == IF f.mfa THEN refresher_call(mfa[o])
                           ELSE [m |-> mfa[o], out |-> "refresh"]
        begun == get_cached_credentials_begin(
                     cache, [fetch[c] EXCEPT !.key = f.role_arn,
                                             !.window = f.window], now)
        client == create_client(f.source_credentials)
    IN  IF pair[2].pc # "refreshing"
        THEN Put(c, o, pair) /\ UNCHANGED <<cache, fetch, mfa, sts>>
        ELSE IF called.out = "raise"
        THEN /\ Put(c, o, protected_refresh_raised(
                              pair[1], pair[2], "RefreshWithMFAUnsupportedError", now))
             /\ UNCHANGED <<cache, fetch, mfa, sts>>
        ELSE /\ mfa' = [mfa EXCEPT ![o] = called.m]
             /\ IF begun[2].pc = "done"
                THEN /\ PutFetch(c, begun)
                     /\ Put(c, o, protected_refresh_returned(
                                      pair[1], pair[2],
                                      metadata(begun[2].result.md[1]), now))
                     /\ sts' = sts
                ELSE IF client.kind = "raise"
                THEN /\ PutFetch(c, get_cached_credentials_raised(
                                        begun[1], begun[2], "AttributeError"))
                     /\ Put(c, o, protected_refresh_raised(
                                      pair[1], pair[2], "AttributeError", now))
                     /\ sts' = sts
                ELSE /\ PutFetch(c, begun)
                     /\ Put(c, o, pair)
                     /\ sts' = Append(sts, [by |-> c, obj |-> o,
                                            signer |-> client.signer,
                                            role_arn |-> f.role_arn])

\* Caller c invokes get_frozen_credentials on the loaded credential o.
GetFrozenCredentials(c, o) ==
    /\ task[c].pc = "idle"
    /\ UseRefresher(c, o, refresh(cred[o],
                                  [task[c] EXCEPT !.obj = o,
                                                  !.entry = Window(cred[o], now),
                                                  !.early = NoneCompleted(o),
                                                  !.first = NoneCalled(o)],
                                  c, now))
    /\ UNCHANGED <<now, resolverVars, invocation, provider, fetcher,
                 chainVars>>

\* A woken waiter takes the lock and runs the body of its `async with`.
AcquireLock(c) ==
    LET o == task[c].obj IN
    /\ task[c].pc \in {"waitAdvisory", "waitMandatory"}
    /\ ~cred[o].locked
    /\ Head(cred[o].waiters) = c
    /\ LET r == lock_take([cred[o] EXCEPT !.waiters = Tail(@)])
       IN  IF task[c].pc = "waitAdvisory"
           THEN UseRefresher(c, o, refresh_locked_advisory(r, Woken(task[c]), now))
           ELSE UseRefresher(c, o, refresh_locked_mandatory(r, Woken(task[c]), now))
    /\ UNCHANGED <<now, resolverVars, invocation, provider, fetcher,
                 chainVars>>

\* sts.assume_role returns temporary credentials c that expire d from now.
AssumeRoleReturns(c, d) ==
    LET o == task[c].obj
        got == get_cached_credentials_returned(
                   cache, fetch[c],
                   [AccessKeyId |-> c, Expiration |-> DateTime(now + d)])
    IN  /\ task[c].pc = "refreshing"
        /\ fetch[c].pc = "getting"
        /\ PutFetch(c, got)
        /\ Put(c, o, protected_refresh_returned(
                         cred[o], task[c], metadata(got[2].result.md[1]), now))
        /\ UNCHANGED <<now, resolverVars, mfaVars, assumeRoleVars,
                 chainVars>>

\* sts.assume_role raises.
AssumeRoleRaises(c) ==
    LET o == task[c].obj IN
    /\ task[c].pc = "refreshing"
    /\ fetch[c].pc = "getting"
    /\ PutFetch(c, get_cached_credentials_raised(cache, fetch[c], "ClientError"))
    /\ Put(c, o, protected_refresh_raised(cred[o], task[c], "ClientError", now))
    /\ UNCHANGED <<now, resolverVars, mfaVars, assumeRoleVars,
                 chainVars>>

NextAssumeRole ==
    \/ Tick
    \/ AssumeRoleLoad
    \/ \E c \in RoleCallers, o \in DOMAIN cred : GetFrozenCredentials(c, o)
    \/ \E c \in RoleCallers : AcquireLock(c)
    \/ \E c \in RoleCallers, d \in Durations : AssumeRoleReturns(c, d)
    \/ \E c \in RoleCallers : AssumeRoleRaises(c)

SpecAssumeRole == InitAssumeRole /\ [][NextAssumeRole]_vars

\* ------------------------------------------------------- claims: refresh
Refreshers(o) == {c \in Callers : task[c].obj = o /\ task[c].start # "none"}

ReturnedSnap(c, k) ==
    /\ task[c].pc = "done"
    /\ task[c].result.kind = "return"
    /\ task[c].result.snap = k

\* Every caller called object o while its mandatory window had elapsed and
\* before any refresh_using call on it had completed, all have finished, and
\* every refresh_using call returned metadata that was not expired.
ConcurrentMandatoryCalls(o) ==
    /\ \A c \in Callers :
          /\ task[c].pc = "done"
          /\ task[c].obj = o
          /\ task[c].entry = "mandatory"
          /\ task[c].early
          /\ task[c].fetched.st # "raised"
          /\ task[c].fetched.st = "ok" => task[c].fetched.life >= 0

SingleFlightResult(o) ==
    /\ Cardinality(Refreshers(o)) = 1
    /\ \A c \in Callers, k \in Refreshers(o) : ReturnedSnap(c, Some(k))

\* C1 as stated: N callers that concurrently call get_frozen_credentials on
\* a credential past its mandatory window, with refresh_using succeeding,
\* invoke refresh_using exactly once and all return the refreshed snapshot.
C1_SingleFlight_Original ==
    \A o \in DOMAIN cred :
        ConcurrentMandatoryCalls(o) => SingleFlightResult(o)

\* The time at which the metadata caller c fetched expires.
FetchedExpiry(c) == task[c].fetched.at + task[c].fetched.life

\* C1 amended: the same, provided that the metadata refresh_using returned
\* is still outside the mandatory refresh window when the last caller has
\* returned (so no waiting caller found it stale on its re-check).
C1_SingleFlight ==
    \A o \in DOMAIN cred :
        ( /\ ConcurrentMandatoryCalls(o)
          /\ \A c \in Callers :
                task[c].fetched.st = "ok" => FetchedExpiry(c) - now >= Mandatory )
        => SingleFlightResult(o)

C1_Witness ==
    \E o \in DOMAIN cred :
        /\ ConcurrentMandatoryCalls(o)
        /\ \A c \in Callers :
              task[c].fetched.st = "ok" => FetchedExpiry(c) - now >= Mandatory
        /\ \E c \in Callers : task[c].fetched.st = "none"


\* Caller c's call ends in this step.
Ends(c) == task[c].pc # "done" /\ task'[c].pc = "done"

\* In this step refresh_using raises in caller c's call.
RefreshRaisesIn(c) ==
    task[c].pc = "refreshing" /\ task'[c].fetched.st = "raised"

\* Caller c's call returns, in this step, the snapshot held before it and
\* leaves the stored key fields, expiry and snapshot as they were.
SwallowedIn(c) ==
    LET o == task[c].obj IN
    /\ task'[c].pc = "done"
    /\ task'[c].result.kind = "return"
    /\ task'[c].result.snap = cred[o].frozen
    /\ cred'[o].access_key = cred[o].access_key
    /\ cred'[o].expiry_time = cred[o].expiry_time
    /\ cred'[o].frozen = cred[o].frozen

PropagatedIn(c) ==
    /\ task'[c].pc = "done"
    /\ task'[c].result.kind = "raise"
    /\ task'[c].result.err = "RefreshError"

C3_StillExpiredRaises ==
    \A c \in Callers :
        (task[c].fetched.st = "ok" /\ task[c].fetched.life < 0)
        => /\ task[c].pc = "done"
           /\ task[c].result.kind = "raise"
           /\ task[c].result.err = "RuntimeError"
           /\ task[c].result.snap = None

C3_Witness ==
    \E c \in Callers : task[c].fetched.st = "ok" /\ task[c].fetched.life < 0

\* Caller c's call returns normally in this step.
ReturnsIn(c) == Ends(c) /\ task'[c].result.kind = "return"

\* C4 as stated: whenever get_frozen_credentials returns normally, the
\* credential is not past its mandatory window at the moment of return.
C4_ReturnNotMandatory_Original ==
    [][\A c \in Callers :
          ReturnsIn(c) =>
            ~refresh_needed(cred'[task'[c].obj], Mandatory, now')]_vars

\* C4 amended: a call that returns normally without a refresh_using call of
\* its own returns a credential not past its mandatory window; one whose own
\* refresh returned metadata returns a credential that is not expired (it may
\* be inside the mandatory window); one whose own refresh raised returns the
\* credential that was outside the mandatory window when that refresh began.
C4_ReturnNotMandatory ==
    [][\A c \in Callers :
          ReturnsIn(c) =>
            LET r == cred'[task'[c].obj]
                f == task'[c].fetched.st
            IN  /\ f = "none" => ~refresh_needed(r, Mandatory, now')
                /\ f = "ok" => ~refresh_needed(r, 0, now')
                /\ f = "raised" => task'[c].start = "advisory"]_vars

C4_Witness ==
    \E c \in Callers :
        /\ task[c].pc = "done"
        /\ task[c].result.kind = "return"
        /\ task[c].entry = "mandatory"
        /\ task[c].fetched.st = "none"

\* Caller c calls get_frozen_credentials in this step.
CallsIn(c) == task[c].pc = "idle" /\ task'[c].pc # "idle"

\* Caller c's call returns at once the snapshot held, without invoking
\* refresh_using and without changing the credential.
FastPathIn(c) ==
    LET o == task'[c].obj IN
    /\ task'[c].pc = "done"
    /\ task'[c].result.kind = "return"
    /\ task'[c].result.snap = cred[o].frozen
    /\ task'[c].start = "none"
    /\ cred' = cred

\* C5 as stated: on a credential whose mandatory window has not elapsed,
\* get_frozen_credentials returns the held key material without invoking
\* refresh_using.
C5_NoRefreshBeforeMandatory_Original ==
    [][\A c \in Callers :
          (CallsIn(c) /\ Window(cred[task'[c].obj], now) # "mandatory")
          => FastPathIn(c)]_vars

\* C5 amended: on a credential whose advisory window has not elapsed,
\* get_frozen_credentials returns the held key material without invoking
\* refresh_using.
C5_NoRefreshBeforeAdvisory ==
    [][\A c \in Callers :
          (CallsIn(c) /\ Window(cred[task'[c].obj], now) = "fresh")
          => FastPathIn(c)]_vars

C5_Witness ==
    \E c \in Callers :
        /\ task[c].pc = "done"
        /\ task[c].entry = "fresh"
        /\ task[c].result.kind = "return"
        /\ task[c].result.snap # None

InFlight(o) == {c \in Callers : task[c].pc = "refreshing" /\ task[c].obj = o}

\* C6: at most one refresh_using call is in progress per credential object,
\* and only while that object's refresh lock is held.
C6_SingleInFlight ==
    \A o \in DOMAIN cred :
        /\ Cardinality(InFlight(o)) <= 1
        /\ InFlight(o) # {} => cred[o].locked

C6_Witness ==
    \E o \in DOMAIN cred, c1, c2 \in Callers :
        /\ c1 \in InFlight(o)
        /\ task[c2].obj = o
        /\ task[c2].pc \in {"waitAdvisory", "waitMandatory"}


\* ------------------------------------------------------ claims: resolver
\* The providers whose load() has been invoked, in the order of invocation.
Loaded == [i \in 1..Len(resolver.loads) |-> resolver.loads[i].method]

IsPrefix(p, q) == Len(p) <= Len(q) /\ \A i \in 1..Len(p) : p[i] = q[i]

\* C7: load_credentials invokes load() on the providers in list order,
\* returns the credentials of the first provider whose load() is not None
\* without invoking a later provider, and returns None (no error) when every
\* provider returned None.
C7_FirstProviderWins ==
    LET n == Len(resolver.loads) IN
    /\ IsPrefix(Loaded, resolver.providers)
    /\ \A i \in 1..(n - 1) : resolver.loads[i].out = "null"
    /\ (resolver.pc = "done" /\ n > 0 /\ resolver.loads[n].out = "creds")
         => resolver.result = [kind |-> "return",
                               creds |-> Some(resolver.providers[n])]
    /\ (resolver.pc = "done" /\ \A i \in 1..n : resolver.loads[i].out = "null")
         => /\ Loaded = resolver.providers
            /\ resolver.result = [kind |-> "return", creds |-> None]
    /\ (resolver.pc = "done" /\ resolver.result.kind = "return"
                              /\ resolver.result.creds # None)
         => n > 0 /\ resolver.loads[n].out = "creds"

C7_Witness ==
    /\ resolver.pc = "done"
    /\ Len(resolver.loads) = 2
    /\ Len(resolver.providers) = 3
    /\ resolver.loads[1].out = "null"
    /\ resolver.result.creds = Some(resolver.providers[2])


\* ------------------------------------------------------- claims: fetcher
\* fetch_credentials is called, as call f, in this step.
FetchCallIn(f) == fetch[f].pc = "idle" /\ fetch'[f].pc # "idle"

\* An earlier call with cache key k fetched a response and wrote it.
FetchedBefore(k) ==
    \E g \in Fetches :
        /\ fetch[g].pc = "done" /\ fetch[g].key = k
        /\ fetch[g].called /\ fetch[g].result.kind = "return"

\* Call f returns, in this step, what the call that wrote the cached entry
\* returned, without a call of _get_credentials.
ServedFromCacheIn(f, k) ==
    /\ cache[k] # None
    /\ fetch'[f].pc = "done"
    /\ ~fetch'[f].called
    /\ fetch'[f].result = fetch[cache[k][1].AccessKeyId].result
    /\ fetch'[f].result.md[1].access_key = cache[k][1].AccessKeyId
    /\ parse_if_needed(fetch'[f].result.md[1].expiry_time)
         = parse_if_needed(cache[k][1].Expiration)
    /\ cache' = cache

InvokesIn(i, w) == invocation[i].pc = "idle" /\ invocation'[i].pc # "idle"
                   /\ invocation'[i].of = w

\* Refresher w was invoked before.
InvokedBefore(w) == \E j \in Invokers : invocation[j].pc # "idle" /\ invocation[j].of = w

\* C10: the refresher wrapped by create_aio_mfa_serial_refresher is invoked
\* at most once, however the invocations of the wrapper interleave, and every
\* invocation of the wrapper after the first raises
\* RefreshWithMFAUnsupportedError without invoking the wrapped refresher.
C10_MfaAtMostOnce ==
    [][\A w \in Wrappers :
          /\ mfa'[w].refreshes <= 1
          /\ \A i \in Invokers :
                (InvokesIn(i, w) /\ InvokedBefore(w))
                => /\ invocation'[i].pc = "done"
                   /\ invocation'[i].result.kind = "raise"
                   /\ invocation'[i].result.err = "RefreshWithMFAUnsupportedError"
                   /\ mfa'[w].refreshes = mfa[w].refreshes]_vars

\* Invocations interleave: one was rejected while the first still awaits the
\* wrapped refresher, and another is still to come.
C10_Witness ==
    \E i, j, k \in Invokers :
        /\ invocation[i].pc = "awaiting"
        /\ invocation[j].of = invocation[i].of
        /\ invocation[j].result.err = "RefreshWithMFAUnsupportedError"
        /\ invocation[k].pc = "idle"
        /\ mfa[invocation[i].of].refreshes = 1

\* ------------------------------------------------- claims: assume-role
\* Profile A has role_arn and source_profile B, and B has static keys.
RoleFromStaticSource ==
    /\ provider.profiles.A.role_arn # None
    /\ provider.profiles.A.source_profile = Some("B")
    /\ provider.profiles.A.credential_source = None
    /\ has_static_credentials(provider.profiles.B)

\* load() is called on the new provider, and ends, in this step.
LoadsIn == provider.loads = <<>> /\ Len(provider'.loads) = 1

\* load() returns a new deferred credential object and no assume-role call
\* is made.
LoadDefers ==
    /\ provider'.loads[Len(provider'.loads)].kind = "creds"
    /\ Len(cred') = Len(cred) + 1
    /\ cred'[Len(cred')] = NewDeferred
    /\ sts' = sts

\* Caller c makes the first call of get_frozen_credentials on object o.
FirstCallIn(c, o) ==
    /\ task[c].pc = "idle" /\ task'[c].pc # "idle"
    /\ task'[c].obj = o /\ task'[c].first

\* One assume-role call, for A's role and signed with B's keys, is made in
\* this step for caller c and object o.
AssumesRoleIn(c, o) ==
    /\ Len(sts') = Len(sts) + 1
    /\ SubSeq(sts', 1, Len(sts)) = sts
    /\ sts'[Len(sts')] =
         [by |-> c, obj |-> o,
          signer |-> provider.profiles.B.aws_access_key_id[1],
          role_arn |-> provider.profiles.A.role_arn[1]]

\* The first call on an object ends in this step, after its assume-role call.
FirstCallEndsIn(c) ==
    task[c].first /\ task[c].pc = "refreshing" /\ task'[c].pc = "done"

\* The assume-role call of c returned credentials that have not expired.
GotUnexpired(c) ==
    /\ fetch'[c].result.kind = "return"
    /\ parse_if_needed(fetch'[c].result.md[1].expiry_time) >= now

\* get_frozen_credentials of c returns the credentials its assume-role call
\* returned.
ReturnsRoleCredentials(c) ==
    /\ task'[c].result.kind = "return"
    /\ task'[c].result.snap = Some(fetch'[c].result.md[1].access_key)
    /\ sts' = sts

Range(q) == {q[n] : n \in 1..Len(q)}

\* C11: the chain create_credential_resolver builds has no environment
\* provider when a profile is set on the session, and has it first when none
\* is; the other providers and their order are the same in both cases.
C11_EnvProviderByProfile ==
    session.built =>
        LET ps == resolver.providers IN
        IF session.instance_profile # None
        THEN /\ "env" \notin Range(ps)
             /\ \A ss \in Sessions :
                   ss.instance_profile = None
                   => create_credential_resolver(ss).providers = <<"env">> \o ps
        ELSE /\ ps[1] = "env"
             /\ "env" \notin Range(Tail(ps))
             /\ \A ss \in Sessions :
                   ss.instance_profile # None
                   => create_credential_resolver(ss).providers = Tail(ps)

\* A chain built for a session with a profile set has been tried to its end.
C11_Witness ==
    /\ session.built
    /\ session.instance_profile # None
    /\ resolver.pc = "done"
    /\ Len(resolver.loads) = Len(resolver.providers)
    /\ Len(resolver.providers) = 9

\* --------------------------------------------- claims: credential sourcer
\* A provider with METHOD m is registered with the sourcer.
Registered(m) == \E n \in 1..Len(sourcer.providers) : sourcer.providers[n].method = m

\* The METHOD of the provider a canonical name (lower case) names.
NamedMethod(l) ==
    CASE l = "sharedconfig" -> "config-file"
      [] l = "sharedcredentials" -> "shared-credentials-file"
      [] l = "environment" -> "env"
      [] l = "ecscontainer" -> "container-role"

\* The METHODs of the providers whose load() was awaited, in order.
SourceLoaded == [n \in 1..Len(sourcer.rs.loads) |-> sourcer.rs.loads[n].method]

\* C12: a lookup of SharedConfig or SharedCredentials, in any case, yields a
\* resolver over the assume-role provider and then the named provider when
\* both are registered, the assume-role provider alone when only it is
\* registered, and UnknownCredentialError when neither is; any other name
\* whose provider is not registered yields UnknownCredentialError.
C12_SourcerLookup ==
    sourcer.pc # "idle" =>
        LET l == lower(sourcer.name)
            named == NamedMethod(l)
            unknown == /\ sourcer.pc = "done"
                       /\ sourcer.error = "UnknownCredentialError"
                       /\ sourcer.rs.loads = <<>>
        IN  IF l \in {"sharedconfig", "sharedcredentials"}
            THEN /\ (Registered(named) /\ Registered("assume-role"))
                      => /\ sourcer.source = "resolver"
                         /\ sourcer.rs.providers = <<"assume-role", named>>
                         /\ IsPrefix(SourceLoaded, <<"assume-role", named>>)
                         /\ Len(SourceLoaded) = 2
                              => sourcer.rs.loads[1].out = "null"
                 /\ (~Registered(named) /\ Registered("assume-role"))
                      => /\ sourcer.source = "provider"
                         /\ sourcer.rs.providers = <<"assume-role">>
                 /\ (~Registered(named) /\ ~Registered("assume-role")) => unknown
            ELSE ~Registered(named) => unknown

\* A composite lookup whose assume-role provider loaded nothing and whose
\* named provider is being loaded.
C12_Witness ==
    /\ sourcer.name = "SHAREDCREDENTIALS"
    /\ sourcer.source = "resolver"
    /\ Len(sourcer.rs.loads) = 2
    /\ sourcer.rs.loads[2].method = "shared-credentials-file"
    /\ sourcer.rs.loads[2].out = "creds"

\* --------------------------------------------- claims: process provider
\* The response of the process run by load() is valid.
ValidOutput(out) ==
    /\ out.returncode = 0
    /\ out.Version = Some(1)
    /\ out.AccessKeyId # None /\ out.SecretAccessKey # None

\* What load() did, by the configuration and the response of the process.
LoadByOutput ==
    process.pc = "done" =>
        IF ~process.credential_process
        THEN process.result.kind = "null" /\ process.runs = 0 /\ cred = <<>>
        ELSE LET out == process.out[1] IN
             IF ~ValidOutput(out)
             THEN /\ process.result.kind = "raise"
                  /\ process.result.err = "CredentialRetrievalError"
                  /\ cred = <<>>
                  /\ process.runs = 1
             ELSE IF out.Expiration # None
             THEN /\ process.result.kind = "refreshable"
                  /\ process.result.key = out.AccessKeyId
                  /\ Len(cred) = 1
             ELSE /\ process.result.kind = "static"
                  /\ process.result.key = out.AccessKeyId
                  /\ cred = <<>>
                  /\ process.runs = 1

\* A refresh of the loaded credential begins in this step.
RefreshBeginsIn == \E c \in Callers : task[c].pc # "refreshing" /\ task'[c].pc = "refreshing"

\* C13: load() returns None without a process when no credential_process is
\* configured; a non-zero exit code, a Version other than 1 or a missing
\* AccessKeyId or SecretAccessKey gives CredentialRetrievalError and no
\* credential; a valid response with Expiration gives a refreshable
\* credential, each refresh of which runs the process again and takes the
\* credentials of that run, and one without Expiration a static credential.
C13_ProcessProvider ==
    [][/\ LoadByOutput'
       /\ process.pc = "done" =>
             /\ process'.runs = IF RefreshBeginsIn THEN process.runs + 1
                                                   ELSE process.runs
             /\ \A c \in Callers :
                   (task[c].pc = "refreshing" /\ task'[c].fetched.st = "ok")
                   => /\ cred'[1].access_key = Some(c)
                      /\ cred'[1].frozen = Some(c)]_vars

\* The loaded credential was refreshed by a second run of the process and
\* the caller got the credentials of that run.
C13_Witness ==
    /\ process.result.kind = "refreshable"
    /\ process.runs = 2
    /\ \E c \in Callers :
          /\ task[c].pc = "done" /\ task[c].result.kind = "return"
          /\ task[c].result.snap = Some(c)

\* ------------------------------------------- claims: deferred credentials
\* refresh_needed of object r, for every window: true while there is no
\* snapshot, the inherited check once there is one.
DeferredRefreshNeeded(r, tm) ==
    \A w \in 0..(Advisory + 1) :
        IF r.frozen = None
        THEN refresh_needed(r, w, tm)
        ELSE refresh_needed(r, w, tm) = base_refresh_needed(r, w, tm)

\* C14: while a deferred credential has no snapshot, refresh_needed is true
\* for every window, the first get_frozen_credentials invokes refresh_using
\* and no call returns without a snapshot; once there is a snapshot,
\* refresh_needed is the inherited window check.
C14_DeferredFirstAccess ==
    [][\A o \in DOMAIN cred :
          /\ DeferredRefreshNeeded(cred[o], now)
          /\ DeferredRefreshNeeded(cred'[o], now')
          /\ \A c \in Callers :
                /\ (CallsIn(c) /\ task'[c].obj = o /\ task'[c].first
                      /\ cred[o].frozen = None)
                   => task'[c].pc = "refreshing"
                /\ (ReturnsIn(c) /\ task'[c].obj = o)
                   => /\ task'[c].result.snap # None
                      /\ cred[o].frozen = None => task[c].pc = "refreshing"]_vars

\* The first call on a deferred credential is in refresh_using and a second
\* caller waits for it.
C14_Witness ==
    \E o \in DOMAIN cred, c, w \in Callers :
        /\ cred[o].frozen = None /\ cred[o].expiry_time = None
        /\ task[c].obj = o /\ task[c].first /\ task[c].pc = "refreshing"
        /\ task[w].obj = o /\ task[w].pc = "waitMandatory"

\* ------------------------------------------ claims: callers during a refresh
\* C15: a caller that finds the refresh lock held while the advisory window
\* has elapsed and the mandatory window has not returns the current snapshot
\* at once: it does not wait for the lock and does not invoke refresh_using.
C15_AdvisoryCallerDoesNotWait ==
    [][\A c \in Callers : \A o \in DOMAIN cred :
          ( /\ CallsIn(c) /\ task'[c].obj = o
            /\ cred[o].locked
            /\ Window(cred[o], now) = "advisory" )
          => /\ task'[c].pc = "done"
             /\ task'[c].result.kind = "return"
             /\ task'[c].result.snap = cred[o].frozen
             /\ task'[c].start = "none"
             /\ cred'[o] = cred[o]]_vars

\* A caller returned the snapshot while another caller's refresh, begun in
\* the advisory window, is still in flight.
C15_Witness ==
    \E c, d \in Callers :
        /\ c # d /\ task[c].obj = task[d].obj
        /\ task[d].pc = "refreshing" /\ task[d].start = "advisory"
        /\ task[c].pc = "done" /\ task[c].entry = "advisory"
        /\ task[c].start = "none" /\ task[c].waited = "none"
        /\ ~task[c].first
        /\ task[c].result.snap = cred[task[c].obj].frozen

\* C16: a caller that finds the refresh lock held while the mandatory window
\* has elapsed waits for the lock; when it has the lock it looks again: it
\* returns the snapshot without refresh_using if the mandatory window is no
\* longer elapsed, otherwise it refreshes with is_mandatory true, and a
\* failure of that refresh reaches it.
C16_MandatoryCallerWaits ==
    [][\A c \in Callers : \A o \in DOMAIN cred :
          /\ ( /\ CallsIn(c) /\ task'[c].obj = o
               /\ cred[o].locked
               /\ Window(cred[o], now) = "mandatory" )
             => /\ task'[c].pc = "waitMandatory"
                /\ cred'[o].waiters = Append(cred[o].waiters, c)
                /\ cred'[o].locked
          /\ ( /\ task[c].pc = "waitMandatory" /\ task[c].obj = o
               /\ task'[c].pc # "waitMandatory" )
             => /\ ~cred[o].locked
                /\ IF Window(cred[o], now) # "mandatory"
                   THEN /\ task'[c].pc = "done"
                        /\ task'[c].result.kind = "return"
                        /\ task'[c].result.snap = cred[o].frozen
                        /\ task'[c].start = "none"
                        /\ ~cred'[o].locked
                   ELSE /\ task'[c].pc = "refreshing"
                        /\ task'[c].is_mandatory
                        /\ cred'[o].locked
          /\ ( /\ RefreshRaisesIn(c) /\ task[c].obj = o
               /\ task[c].waited = "waitMandatory" )
             => PropagatedIn(c)]_vars

\* One waiter returned after the refresh it waited for, another one had to
\* refresh for itself and its failure reached it.
C16_Witness ==
    \E c, d \in Callers :
        /\ c # d /\ task[c].obj = task[d].obj
        /\ task[c].waited = "waitMandatory" /\ task[c].pc = "done"
        /\ task[c].start = "none" /\ task[c].result.kind = "return"
        /\ task[d].waited = "waitMandatory" /\ task[d].pc = "done"
        /\ task[d].start = "mandatory" /\ task[d].result.kind = "raise"
        /\ task[d].result.err = "RefreshError"

\* ------------------------------------- claims: assume-role source resolution
\* A assumes a role from source profile B, which has no static keys and
\* assumes a role itself from source profile C.
RoleFromRoleSource ==
    /\ provider.profiles.A.role_arn # None
    /\ provider.profiles.A.source_profile = Some("B")
    /\ ~has_static_credentials(provider.profiles.B)
    /\ has_assume_role_config_vars(provider.profiles.B)
    /\ provider.profiles.B.source_profile = Some("C")

\* C17: when the source profile of an assume-role profile has role-assumption
\* settings and no static keys, load() binds the outer fetcher to the deferred
\* credential of _load_creds_via_assume_role for the source profile, and the
\* first get_frozen_credentials on the outer credential, missing the cache,
\* gets the inner role's credentials from it and goes on to the outer
\* assume-role call instead of failing.
C17_NestedAssumeRole ==
    [][RoleFromRoleSource =>
          /\ LoadsIn =>
                /\ LoadDefers
                /\ fetcher'[Len(fetcher')].source_credentials.kind = "deferred"
          /\ \A c \in Callers : \A o \in DOMAIN cred :
                ( /\ FirstCallIn(c, o)
                  /\ load_from_cache(cache, fetcher[o].role_arn,
                                     fetcher[o].window, now) = None )
                => task'[c].pc = "refreshing"]_vars

\* What the code does instead: the outer fetcher holds the coroutine object
\* of the call that was not awaited, and the first get_frozen_credentials on
\* the outer credential raised AttributeError with no assume-role call made.
C17_Witness ==
    /\ RoleFromRoleSource
    /\ Len(fetcher) >= 1
    /\ fetcher[1].source_credentials = Coroutine("B")
    /\ sts = <<>>
    /\ \E c \in Callers :
          /\ task[c].pc = "done" /\ task[c].first /\ task[c].obj = 1
          /\ task[c].result.kind = "raise"
          /\ task[c].result.err = "AttributeError"

\* load() raises error e in this step and returns no credential object.
LoadRaises(e) ==
    /\ provider'.loads[Len(provider'.loads)] = [kind |-> "raise", err |-> e]
    /\ cred' = cred
    /\ fetcher' = fetcher

\* A's role is assumed from a credential_source, and the source loads
\* nothing.
SourceLoadsNothing ==
    /\ provider.profiles.A.role_arn # None
    /\ provider.profiles.A.source_profile = None
    /\ provider.profiles.A.credential_source # None
    /\ provider.sourced = None

\* A's role is assumed from source profile B, and the provider chain built
\* for B loads nothing.
SubChainLoadsNothing ==
    /\ provider.profiles.A.role_arn # None
    /\ provider.profiles.A.source_profile = Some("B")
    /\ provider.profiles.A.credential_source = None
    /\ provider.builder
    /\ ~has_assume_role_config_vars(provider.profiles.B)
    /\ profile_chain_load(provider.profiles.B) = None

\* C18: no fetcher is bound to a null source credential: a credential_source
\* that loads nothing makes load() raise CredentialRetrievalError, a source
\* profile whose provider chain loads nothing makes it raise
\* InvalidConfigError, and in both cases no credential object is returned.
C18_NoNullSourceCredential ==
    [][/\ \A o \in DOMAIN fetcher' : fetcher'[o].source_credentials # None
       /\ (LoadsIn /\ SourceLoadsNothing)
             => LoadRaises("CredentialRetrievalError")
       /\ (LoadsIn /\ SubChainLoadsNothing)
             => LoadRaises("InvalidConfigError")]_vars

\* load() has failed for each of the two reasons (in different behaviours,
\* so the witness is the first; the second is C18_WitnessSubChain).
C18_Witness ==
    /\ SourceLoadsNothing
    /\ provider.loads # <<>>
    /\ provider.loads[1] = [kind |-> "raise", err |-> "CredentialRetrievalError"]
    /\ fetcher = <<>> /\ cred = <<>>

C18_WitnessSubChain ==
    /\ SubChainLoadsNothing
    /\ provider.loads # <<>>
    /\ provider.loads[1] = [kind |-> "raise", err |-> "InvalidConfigError"]
    /\ fetcher = <<>> /\ cred = <<>>

\* Following the source_profile settings from A comes back to a profile that
\* was already followed, and no profile on the way has static keys.
SourceProfileCycle ==
    LET profiles == provider.profiles IN
    /\ profiles.A.role_arn # None /\ profiles.A.credential_source = None
    /\ ~has_static_credentials(profiles.A)
    /\ \/ profiles.A.source_profile = Some("A")
       \/ /\ profiles.A.source_profile = Some("B")
          /\ profiles.B.role_arn # None /\ profiles.B.credential_source = None
          /\ ~has_static_credentials(profiles.B)
          /\ profiles.B.source_profile = Some("A")

\* C19: resolution over source_profile settings that form a cycle (A -> B -> A
\* without static keys) ends: each source profile followed is among the
\* visited profiles before it is resolved, and coming back to a visited
\* profile makes load() fail with a configuration error.
C19_SourceProfileCycle ==
    [][(LoadsIn /\ SourceProfileCycle) =>
          /\ \/ LoadRaises("InfiniteLoopConfigError")
             \/ LoadRaises("InvalidConfigError")
          /\ \A n \in 1..Len(provider'.visited) :
                provider'.visited[n] \in DOMAIN provider.profiles]_vars

\* What the code does for A -> B -> A: B is recorded as visited, B's own
\* resolution is a coroutine that never runs, and load() returned a deferred
\* credential bound to it.
C19_Witness ==
    /\ SourceProfileCycle
    /\ provider.profiles.A.source_profile = Some("B")
    /\ provider.visited = <<"A", "B">>
    /\ provider.loads # <<>> /\ provider.loads[1].kind = "creds"
    /\ Len(fetcher) >= 1 /\ fetcher[1].source_credentials = Coroutine("B")

\* --------------------------------------- claims: errors of _get_credentials
\* _get_credentials, awaited by call f after it missed the cache, raises in
\* this step.
GetCredentialsRaisesIn(f) ==
    /\ fetch[f].pc = "getting"
    /\ fetch[f].raised = "none"
    /\ fetch'[f].raised # "none"

\* C20: when fetch_credentials finds no usable cache entry (none, or an
\* expired one) and _get_credentials raises, fetch_credentials raises the same
\* error, _get_credentials is not called again, and the cache is as it was.
C20_FetchErrorPropagates ==
    [][\A f \in Fetches :
          GetCredentialsRaisesIn(f)
          => /\ fetch[f].called
             /\ fetch'[f].pc = "done"
             /\ fetch'[f].result
                  = [kind |-> "raise", md |-> None, err |-> fetch'[f].raised]
             /\ cache' = cache]_vars

\* A call that found an expired entry has raised the error of
\* _get_credentials, and the entry, written by an earlier call, is still in
\* the cache.
C20_Witness ==
    \E f, g \in Fetches :
        /\ f # g
        /\ fetch[f].pc = "done" /\ fetch[f].called
        /\ fetch[f].result.kind = "raise"
        /\ fetch[f].result.err = "EndpointConnectionError"
        /\ fetch[g].pc = "done" /\ fetch[g].result.kind = "return"
        /\ fetch[g].key = fetch[f].key
        /\ cache[fetch[f].key] # None
        /\ cache[fetch[f].key][1].AccessKeyId = g
        /\ parse_if_needed(cache[fetch[f].key][1].Expiration) < now

\* ------------------------------------------- claims: races on a shared cache
\* _get_credentials of call f returns in this step.
GetCredentialsReturnsIn(f) ==
    /\ fetch[f].pc = "getting" /\ fetch'[f].pc = "done"
    /\ fetch'[f].raised = "none"

\* C21: two fetchers with the same cache key that call fetch_credentials
\* concurrently on an empty cache both miss; each awaits its own
\* _get_credentials, writes its own response and returns it, so the cache
\* holds the response written last; no call fails because of the other, and
\* what a call returns was fetched for its own cache key.
C21_ConcurrentFetchers ==
    [][\A f \in Fetches :
          LET k == fetch'[f].key IN
          /\ (FetchCallIn(f) /\ cache[k] = None)
                => /\ fetch'[f].pc = "getting" /\ fetch'[f].called
                   /\ cache' = cache
          /\ GetCredentialsReturnsIn(f)
                => /\ fetch'[f].result.kind = "return"
                   /\ fetch'[f].result.md[1].access_key = f
                   /\ cache'[k] # None
                   /\ cache'[k][1].AccessKeyId = f
                   /\ normalized(cache'[k][1]) = fetch'[f].result.md[1]
                   /\ \A j \in CacheKeys \ {k} : cache'[j] = cache[j]
          /\ (fetch[f].pc # "done" /\ fetch'[f].pc = "done"
              /\ fetch'[f].result.kind = "return")
                => fetch'[fetch'[f].result.md[1].access_key].key = k
          /\ (fetch[f].pc # "done" /\ fetch'[f].pc = "done"
              /\ fetch'[f].result.kind = "raise")
                => fetch'[f].raised # "none"]_vars

\* Two calls with one cache key missed the empty cache together; each has
\* returned its own response and the cache holds the one written last.
C21_Witness ==
    \E f, g \in Fetches :
        /\ f # g /\ fetch[f].key = fetch[g].key
        /\ fetch[g].raced /\ fetch[f].called /\ fetch[g].called
        /\ fetch[f].pc = "done" /\ fetch[g].pc = "done"
        /\ fetch[f].result.kind = "return" /\ fetch[g].result.kind = "return"
        /\ fetch[f].result.md[1].access_key = f
        /\ fetch[g].result.md[1].access_key = g
        /\ cache[fetch[f].key] # None
        /\ cache[fetch[f].key][1].AccessKeyId = f
        /\ \A h \in Fetches \ {f, g} : fetch[h].pc = "idle"

\* ------------------------------------- claims: distinct credential objects
\* No call of get_frozen_credentials on object o is under way.
Quiet(o) == \A d \in Callers : task[d].obj = o => task[d].pc \in {"idle", "done"}

\* Caller c takes a step of a call on object o.
StepOn(c, o) == task'[c] # task[c] /\ task'[c].obj = o

\* C22: two credential objects refresh independently: a call of
\* get_frozen_credentials on an object with no call of its own under way
\* starts its refresh at once when one is needed and returns the snapshot
\* when none is, whatever is in flight on the other object, and no step of a
\* call on one object changes the other object.
C22_IndependentObjects ==
    [][\A c \in Callers : \A o \in DOMAIN cred :
          /\ (CallsIn(c) /\ task'[c].obj = o /\ Quiet(o))
                => IF Window(cred[o], now) = "fresh"
                   THEN /\ task'[c].pc = "done"
                        /\ task'[c].result.kind = "return"
                        /\ task'[c].result.snap = cred[o].frozen
                   ELSE /\ task'[c].pc = "refreshing"
                        /\ cred'[o].locked
          /\ StepOn(c, o)
                => \A p \in DOMAIN cred \ {o} : cred'[p] = cred[p]]_vars

\* Refreshes of both objects are in flight at the same time, one of them
\* begun in the advisory window.
C22_Witness ==
    \E c, d \in Callers :
        /\ task[c].obj = 1 /\ task[c].pc = "refreshing"
        /\ task[d].obj = 2 /\ task[d].pc = "refreshing"
        /\ task[d].start = "advisory"
        /\ cred[1].locked /\ cred[2].locked

\* --------------------------------------------- claims: a provider that fails
\* The load() awaited by load_credentials raises in this step.
ProviderRaisesIn ==
    /\ resolver.pc = "loading"
    /\ Len(resolver'.loads) >= Len(resolver.loads)
    /\ resolver'.loads[Len(resolver.loads)].out = "raise"

\* C23: when a provider's load() raises during load_credentials, the error
\* reaches the caller of load_credentials and no later provider is invoked:
\* a provider that fails is never taken as one without credentials.
C23_ProviderErrorPropagates ==
    [][ProviderRaisesIn
          => /\ resolver'.pc = "done"
             /\ resolver'.result = [kind |-> "raise", creds |-> None]
             /\ Len(resolver'.loads) = Len(resolver.loads)
             /\ resolver'.idx = resolver.idx]_vars

\* The container provider raised after an earlier provider had no
\* credentials: load_credentials has raised and the provider after it was
\* not invoked.
C23_Witness ==
    /\ resolver.pc = "done"
    /\ resolver.result.kind = "raise"
    /\ Len(resolver.providers) = 3
    /\ Len(resolver.loads) = 2
    /\ resolver.loads[1].out = "null"
    /\ resolver.loads[2] = [method |-> "container-role", out |-> "raise"]

\* ------------------------------------------------- claims: every call ends
\* C24: if every invocation of refresh_using returns or raises, every call
\* of get_frozen_credentials returns or raises: the lock is released on every
\* way out of a refresh, so no caller waits for it forever.
C24_EveryCallEnds ==
    \A c \in Callers :
        (task[c].pc \in {"waitAdvisory", "waitMandatory", "refreshing"})
            ~> (task[c].pc = "done")

\* A caller that waited for the lock through a refresh that ended with the
\* still-expired error has ended its own call, and the lock is free.
C24_Witness ==
    \E c, d \in Callers :
        /\ c # d /\ task[c].obj = task[d].obj
        /\ task[d].pc = "done" /\ task[d].result.err = "RuntimeError"
        /\ task[c].pc = "done" /\ task[c].waited = "waitMandatory"
        /\ task[c].fetched.at >= task[d].fetched.at
        /\ task[c].fetched.st # "none"
        /\ ~cred[task[c].obj].locked
        /\ cred[task[c].obj].waiters = <<>>

\* ------------------------------------------ claims: the deferred credential
\* C25: whenever get_frozen_credentials on a deferred credential returns,
\* the snapshot returned is not null and holds the key of a fetch that
\* completed on that object, whatever the interleaving of the callers and
\* whichever refreshes fail; a caller that arrives while the very first
\* fetch is in flight waits for the lock instead of returning the unset
\* snapshot.
C25_DeferredSnapshotSet ==
    [][\A c \in Callers :
          /\ ReturnsIn(c)
                => /\ task'[c].result.snap # None
                   /\ \E d \in Callers :
                         /\ task'[c].result.snap = Some(d)
                         /\ task'[d].obj = task'[c].obj
                         /\ task'[d].fetched.st = "ok"
          /\ \A o \in DOMAIN cred :
                ( /\ CallsIn(c) /\ task'[c].obj = o
                  /\ cred[o].frozen = None /\ cred[o].locked )
                => /\ task'[c].pc = "waitMandatory"
                   /\ cred'[o].waiters = Append(cred[o].waiters, c)]_vars

\* The first fetch failed while a second caller waited for it; the waiter
\* then fetched for itself and returned its own snapshot.
C25_Witness ==
    \E c, d \in Callers :
        /\ c # d /\ task[c].obj = task[d].obj
        /\ task[d].first /\ task[d].pc = "done"
        /\ task[d].result.kind = "raise" /\ task[d].fetched.st = "raised"
        /\ task[c].waited = "waitMandatory" /\ task[c].entry = "mandatory"
        /\ task[c].early
        /\ task[c].pc = "done" /\ task[c].result = [kind |-> "return",
                                                    snap |-> Some(c),
                                                    err |-> "none"]

\* ------------------------------------------------ claims: expired metadata
\* refresh_using, invoked for caller c, returns in this step metadata that
\* has already expired.
ReturnsExpiredIn(c) ==
    /\ task[c].pc = "refreshing"
    /\ task'[c].fetched.st = "ok"
    /\ task'[c].fetched.life < 0

\* C26: when refresh_using returns metadata that has already expired, the
\* still-expired error is raised in an advisory refresh as in a mandatory
\* one, and by then the key, the expiry time and the frozen snapshot of the
\* credential are those of the expired metadata, also when the credentials
\* held before were still valid.
C26_ExpiredMetadataStored ==
    [][\A c \in Callers : \A o \in DOMAIN cred :
          (ReturnsExpiredIn(c) /\ task[c].obj = o)
          => /\ task'[c].pc = "done"
             /\ task'[c].result.kind = "raise"
             /\ task'[c].result.err = "RuntimeError"
             /\ cred'[o].access_key = Some(c)
             /\ cred'[o].expiry_time = Some(now + task'[c].fetched.life)
             /\ cred'[o].frozen = Some(c)
             /\ ~cred'[o].locked]_vars

\* An advisory refresh, begun while the credentials held were still valid,
\* has raised the still-expired error and left the expired metadata in the
\* credential.
C26_Witness ==
    \E c \in Callers :
        LET o == task[c].obj IN
        /\ task[c].pc = "done" /\ ~task[c].is_mandatory
        /\ task[c].start = "advisory"
        /\ task[c].fetched.st = "ok" /\ task[c].fetched.life < 0
        /\ task[c].result.err = "RuntimeError"
        /\ cred[o].frozen = Some(c) /\ cred[o].access_key = Some(c)
        /\ cred[o].expiry_time[1] < now

\* ------------------------------------- claims: a failed MFA-wrapped refresh
\* The refresher of credential o is MFA-wrapped, its one invocation of the
\* wrapped fetch has ended without a snapshot (it raised), and nobody is
\* refreshing o.
MfaSpent(o) ==
    /\ fetcher[o].mfa
    /\ mfa[o].has_been_called
    /\ cred[o].frozen = None
    /\ \A d \in Callers : task[d].obj = o => task[d].pc # "refreshing"

\* C27: if the first invocation of an MFA-wrapped refresher fails because
\* the wrapped fetch raises, the wrapper counts as used: every later
\* get_frozen_credentials on that deferred credential fails with
\* RefreshWithMFAUnsupportedError, the fetch is not tried again (no cache
\* lookup, no assume-role call), and the credential never has a snapshot.
C27_MfaSpentAfterFailure ==
    [][\A o \in DOMAIN cred :
          MfaSpent(o)
          => /\ cred'[o].frozen = None
             /\ mfa'[o] = mfa[o]
             /\ \A c \in Callers :
                   (task'[c] # task[c] /\ task'[c].obj = o)
                   => /\ sts' = sts
                      /\ fetch'[c] = fetch[c]
                      /\ \/ task'[c].pc \in {"waitAdvisory", "waitMandatory"}
                         \/ /\ task'[c].pc = "done"
                            /\ task'[c].result.kind = "raise"
                            /\ task'[c].result.err
                                 = "RefreshWithMFAUnsupportedError"]_vars

\* The first get_frozen_credentials failed with the error of the assume-role
\* call; a later one has failed with RefreshWithMFAUnsupportedError, no
\* second assume-role call was made and there is no snapshot.
C27_Witness ==
    \E c, d \in Callers : \E o \in DOMAIN cred :
        /\ c # d /\ task[c].obj = o /\ task[d].obj = o
        /\ fetcher[o].mfa
        /\ task[c].first /\ task[c].pc = "done"
        /\ task[c].result.kind = "raise" /\ task[c].result.err = "ClientError"
        /\ task[d].pc = "done" /\ task[d].result.kind = "raise"
        /\ task[d].result.err = "RefreshWithMFAUnsupportedError"
        /\ ~task[d].early
        /\ cred[o].frozen = None
        /\ Len(sts) = 1
        /\ mfa[o].refreshes = 1

====
